---- MODULE Spec2Model ----
(***************************************************************************)
(* Model of the virtio-net data plane of src/devices/src/virtio/net.rs:    *)
(* NetEpollHandler (RX path, TX path, event dispatcher) together with the  *)
(* collaborators it drives (virtqueues, rate limiters, TAP, MMDS).         *)
(*                                                                         *)
(* A handler call is one atomic step.  The handlers are written as         *)
(* operators over a record `h` holding the handler's fields; the record    *)
(* also carries history fields (trace, counters) that only observe.        *)
(***************************************************************************)
EXTENDS Integers, Sequences, FiniteSets, TLC

VARIABLES rx, tx, tap, mmds_ns, irq, metrics, panicked, inputs, hist, dev

vars == <<rx, tx, tap, mmds_ns, irq, metrics, panicked, inputs, hist, dev>>

----------------------------------------------------------------------------
(* Program constants *)

MAX_BUFFER_SIZE == 65562
VNET_HDR_LEN == 12

RX_TAP_EVENT == 0
RX_QUEUE_EVENT == 1
TX_QUEUE_EVENT == 2
RX_RATE_LIMITER_EVENT == 3
TX_RATE_LIMITER_EVENT == 4
NET_EVENTS_COUNT == 5
NUM_QUEUES == 2
QUEUE_SIZE == 256
VIRTIO_MMIO_INT_VRING == 1
MAC_ADDR_LEN == 6
VIRTIO_NET_F_CSUM == 0
VIRTIO_NET_F_GUEST_CSUM == 1
VIRTIO_NET_F_MAC == 5
VIRTIO_NET_F_GUEST_TSO4 == 7
VIRTIO_NET_F_GUEST_UFO == 10
VIRTIO_NET_F_HOST_TSO4 == 11
VIRTIO_NET_F_HOST_UFO == 14
VIRTIO_F_VERSION_1 == 32

(* Bounds of the model *)

\* MaxInputs: chains posted, frames arrived, faults injected and failed
\* notifications (an eventfd read error, a limiter event with no expired
\* timer), in total
MaxInputs == 3
OpsCap == 1
BytesCap == 20

Min(a, b) == IF a < b THEN a ELSE b

----------------------------------------------------------------------------
(* Inputs: descriptor chains the guest posts, frames the TAP yields *)

\* room: the bytes guest memory holds from the descriptor's address to the
\* end of its region (a copy there returns a short count)
Desc(len, wo, mem) == [len |-> len, wo |-> wo, mem |-> mem, room |-> len]

DescShort(len, wo, room) == [len |-> len, wo |-> wo, mem |-> "ok", room |-> room]

\* RX chains: adequate (two descriptors), too short, read-only head, bad
\* address in the second descriptor, and a head descriptor that reaches the
\* end of its memory region after 3 bytes, followed by a descriptor that
\* cannot or can take the rest of a 13-byte frame, and a write-only head
\* followed by a read-only descriptor
RxChains ==
  { <<Desc(7, TRUE, "ok"), Desc(7, TRUE, "ok")>>,
    <<Desc(7, TRUE, "ok")>>,
    <<Desc(14, FALSE, "ok")>>,
    <<Desc(7, TRUE, "ok"), Desc(7, TRUE, "err")>>,
    <<DescShort(7, TRUE, 3), Desc(7, TRUE, "ok")>>,
    <<DescShort(7, TRUE, 3), Desc(14, TRUE, "ok")>>,
    <<Desc(7, TRUE, "ok"), Desc(7, FALSE, "ok")>> }

\* What the guest publishes with one update of the RX avail index: one
\* chain, or a batch of two adequate buffers
RxPosts ==
  { <<c>> : c \in RxChains }
    \cup { << <<Desc(7, TRUE, "ok"), Desc(7, TRUE, "ok")>>,
              <<Desc(7, TRUE, "ok"), Desc(7, TRUE, "ok")>> >> }

\* TX chains: a frame for the TAP, a frame for the MMDS endpoint, a chain
\* cut by a write-only descriptor, a chain whose guest address is bad, a
\* frame for the MMDS endpoint whose second descriptor has a bad address,
\* a chain whose head descriptor is write-only, and a chain whose descriptor
\* reaches the end of its memory region after 5 bytes
TxChains ==
  { [descs |-> <<Desc(14, FALSE, "ok")>>, dst |-> "tap"],
    [descs |-> <<Desc(14, FALSE, "ok")>>, dst |-> "mmds"],
    [descs |-> <<Desc(14, FALSE, "ok"), Desc(7, TRUE, "ok")>>, dst |-> "tap"],
    [descs |-> <<Desc(14, FALSE, "err")>>, dst |-> "tap"],
    [descs |-> <<Desc(14, FALSE, "ok"), Desc(3, FALSE, "err")>>, dst |-> "mmds"],
    [descs |-> <<Desc(7, TRUE, "ok")>>, dst |-> "tap"],
    [descs |-> <<DescShort(14, FALSE, 5)>>, dst |-> "tap"] }

\* What the guest publishes with one update of the TX avail index: one
\* chain, or two frames for the TAP
TxPosts ==
  { <<c>> : c \in TxChains }
    \cup { << [descs |-> <<Desc(14, FALSE, "ok")>>, dst |-> "tap"],
              [descs |-> <<Desc(14, FALSE, "ok")>>, dst |-> "tap"] >> }

TapFrameLens == {13, MAX_BUFFER_SIZE}

\* The frames that reach the TAP between two steps of the handler: one
\* frame, or two short ones
TapBursts == { <<n>> : n \in TapFrameLens } \cup { <<13, 13>> }
MmdsReplyLen == 2
SmallBytesCap == 10
MaxCalls == 3

\* A limiter bucket of size 0 is absent (unlimited)
LimiterConfigs == { <<0, 0>>, <<OpsCap, BytesCap>> }

----------------------------------------------------------------------------
(* RateLimiter (token bucket pair with a replenish timer) *)

NewLimiter(cfg) ==
  [opsCap |-> cfg[1], bytesCap |-> cfg[2], ops |-> cfg[1], bytes |-> cfg[2],
   blocked |-> FALSE, fired |-> FALSE]

HasBucket(l, kind) == IF kind = "Ops" THEN l.opsCap > 0 ELSE l.bytesCap > 0
Budget(l, kind) == IF kind = "Ops" THEN l.ops ELSE l.bytes
Tokens(l) == <<l.ops, l.bytes>>

Size(l, kind) == IF kind = "Ops" THEN l.opsCap ELSE l.bytesCap

\* consume returns true: the bucket is absent, holds n tokens, or is smaller
\* than the request (which then goes through and empties it)
CanConsume(l, n, kind) ==
  ~HasBucket(l, kind) \/ n <= Budget(l, kind) \/ n > Size(l, kind)

consume(l, n, kind) ==
  IF ~HasBucket(l, kind) THEN l
  ELSE IF n <= Budget(l, kind)
       THEN IF kind = "Ops" THEN [l EXCEPT !.ops = @ - n]
                            ELSE [l EXCEPT !.bytes = @ - n]
       ELSE IF n > Size(l, kind)
       THEN IF kind = "Ops" THEN [l EXCEPT !.ops = 0] ELSE [l EXCEPT !.bytes = 0]
       ELSE IF l.blocked THEN l ELSE [l EXCEPT !.blocked = TRUE, !.fired = FALSE]

manual_replenish(l, n, kind) ==
  IF ~HasBucket(l, kind) THEN l
  ELSE IF kind = "Ops" THEN [l EXCEPT !.ops = Min(@ + n, l.opsCap)]
                       ELSE [l EXCEPT !.bytes = Min(@ + n, l.bytesCap)]

is_blocked(l) == l.blocked

\* event_handler: Ok exactly when the armed timer has expired
event_handler_ok(l) == l.blocked /\ l.fired
event_handler(l) ==
  IF event_handler_ok(l) THEN [l EXCEPT !.blocked = FALSE, !.fired = FALSE] ELSE l

\* Time passes: the buckets named in `kinds` have refilled (each bucket has
\* its own refill time) and an armed timer expires
refill(l, kinds) ==
  [l EXCEPT !.ops = IF "Ops" \in kinds THEN l.opsCap ELSE @,
            !.bytes = IF "Bytes" \in kinds THEN l.bytesCap ELSE @,
            !.fired = l.blocked]

----------------------------------------------------------------------------
(* Virtqueue *)

NewQueue == [avail |-> <<>>, next_avail |-> 0, used |-> <<>>]
QueueHasNext(q) == q.next_avail < Len(q.avail)
\* iter().next(): the chain at the current position (head index = position)
QueuePeek(q) == q.avail[q.next_avail + 1]
QueueAdvance(q) == [q EXCEPT !.next_avail = @ + 1]
go_to_previous_position(q) == [q EXCEPT !.next_avail = @ - 1]
add_used(q, head, len) == [q EXCEPT !.used = Append(@, [head |-> head, len |-> len])]

----------------------------------------------------------------------------
(* History: the calls one handle_event made, in order (hist.trace), and   *)
(* counters over the whole run.  History never feeds back into the handler *)

Log(h, item) == [h EXCEPT !.hist.trace = Append(@, item)]

----------------------------------------------------------------------------
(* NetEpollHandler: interrupt *)

\* interrupt_status.fetch_or(VIRTIO_MMIO_INT_VRING)
fetch_or(status, bit) == IF (status \div bit) % 2 = 1 THEN status ELSE status + bit

\* if let Err(e) = self.interrupt_evt.write(1) { event_fails.inc() }: a
\* failed write leaves the eventfd counter where it was
signal_used_queue(h) ==
  IF h.irq.fault
  THEN LET h1 == Log(h, [op |-> "signal_err", since |-> h.hist.used_since_signal])
       IN [h1 EXCEPT !.irq.status = fetch_or(@, VIRTIO_MMIO_INT_VRING),
                     !.irq.fault = FALSE,
                     !.metrics.event_fails = @ + 1,
                     !.hist.used_since_signal = 0]
  ELSE LET h1 == Log(h, [op |-> "signal", since |-> h.hist.used_since_signal])
       IN [h1 EXCEPT !.irq.status = fetch_or(@, VIRTIO_MMIO_INT_VRING),
                     !.irq.evt = @ + 1,
                     !.hist.used_since_signal = 0]

----------------------------------------------------------------------------
(* NetEpollHandler: RX path *)

\* The chain ran out before the frame was written
RxChainExhausted_nofail(write_count) ==
  [write_count |-> write_count, fails |-> 0, why |-> "short"]

RxChainExhausted(write_count) ==
  [write_count |-> write_count, fails |-> 1, why |-> "short"]

\* if !desc.is_write_only() { break; }
RxNotWriteOnly_counted(write_count) ==
  [write_count |-> write_count, fails |-> 1, why |-> "ro"]

RxNotWriteOnly(write_count) ==
  [write_count |-> write_count, fails |-> 0, why |-> "ro"]

\* The chain walk of rx_single_frame: bytes written, rx_fails increments,
\* and why the walk stopped
RECURSIVE RxWalk(_, _, _, _)
RxWalk(chain, i, write_count, bytes_read) ==
  IF i > Len(chain)
  THEN RxChainExhausted(write_count)
  ELSE LET desc == chain[i] IN
       IF ~desc.wo THEN RxNotWriteOnly(write_count)
       ELSE IF desc.mem = "err"
       THEN [write_count |-> write_count, fails |-> 1, why |-> "err"]
       ELSE LET limit == Min(write_count + desc.len, bytes_read)
                sz == Min(limit - write_count, desc.room)
                wc == write_count + sz
            IN IF wc >= bytes_read
               THEN [write_count |-> wc, fails |-> 0, why |-> "done"]
               ELSE RxWalk(chain, i + 1, wc, bytes_read)

\* The slices the walk copies: source_slice = &frame_buf[write_count..limit]
\* goes to the address of descriptor i
RECURSIVE RxSegs(_, _, _, _)
RxSegs(chain, i, write_count, bytes_read) ==
  IF i > Len(chain) \/ ~chain[i].wo \/ chain[i].mem = "err" THEN <<>>
  ELSE LET limit == Min(write_count + chain[i].len, bytes_read)
           wc == write_count + Min(limit - write_count, chain[i].room)
           seg == [desc |-> i, from |-> write_count, to |-> wc]
       IN IF wc >= bytes_read THEN <<seg>>
          ELSE <<seg>> \o RxSegs(chain, i + 1, wc, bytes_read)

\* The length rx_single_frame puts in the used ring
RxUsedLen_bytes_read(w, bytes_read) == bytes_read

RxUsedLen(w, bytes_read) == w.write_count

rx_single_frame(h) ==
  IF ~QueueHasNext(h.rx.queue)
  THEN [h EXCEPT !.ret = FALSE]
  ELSE LET head_index == h.rx.queue.next_avail
           w == RxWalk(QueuePeek(h.rx.queue), 1, 0, h.rx.bytes_read)
           complete == w.write_count >= h.rx.bytes_read
           used_len == RxUsedLen(w, h.rx.bytes_read)
           h1 == Log(h, [op |-> "rx_used", head |-> head_index, len |-> used_len,
                         segs |-> RxSegs(QueuePeek(h.rx.queue), 1, 0, h.rx.bytes_read),
                         bytes_read |-> h.rx.bytes_read, complete |-> complete,
                         why |-> w.why, fails |-> w.fails, frame |-> h.rx.frame,
                         retry |-> h.rx.frame \in h.hist.short,
                         seq |-> h.hist.reads,
                         delivered |-> h.metrics.rx_packets_count])
       IN [h1 EXCEPT
             !.rx.queue = add_used(QueueAdvance(@), head_index, used_len),
             !.rx.deferred_irqs = TRUE,
             !.metrics.rx_fails = @ + w.fails,
             !.metrics.rx_packets_count = IF complete THEN @ + 1 ELSE @,
             !.hist.used_since_signal = @ + 1,
             !.hist.pending = IF complete THEN FALSE ELSE @,
             !.hist.short = IF w.why = "short" THEN @ \cup {h.rx.frame} ELSE @,
             !.ret = complete]

\* h0: the handler when rate_limited_rx_single_frame was entered
RxRejected(h0, h1) ==
  Log(h1, [op |-> "rx_reject", pre |-> Tokens(h0.rx.rate_limiter),
           post |-> Tokens(h1.rx.rate_limiter)])

\* The byte consume failed: revert the OPS consume
RxBytesRejected(h1) ==
  [h1 EXCEPT !.rx.rate_limiter =
                manual_replenish(consume(@, h1.rx.bytes_read, "Bytes"), 1, "Ops"),
             !.ret = FALSE]

\* Guest delivery failed: undo both consumes
RxDeliveryFailed_refund_tx(h3) ==
  [h3 EXCEPT !.tx.rate_limiter =
                manual_replenish(manual_replenish(@, 1, "Ops"), h3.rx.bytes_read, "Bytes")]

RxDeliveryFailed(h3) ==
  [h3 EXCEPT !.rx.rate_limiter =
                manual_replenish(manual_replenish(@, 1, "Ops"), h3.rx.bytes_read, "Bytes")]

\* if !success { undo the consumes }; h3: the handler after rx_single_frame
RxUndoUnlessSuccess(h, h3) ==
  IF ~h3.ret THEN RxRejected(h, RxDeliveryFailed(h3)) ELSE h3

\* h1: the handler after the OPS consume
RxConsumeBytes(h, h1) ==
  IF ~CanConsume(h1.rx.rate_limiter, h1.rx.bytes_read, "Bytes")
  THEN RxRejected(h, RxBytesRejected(h1))
  ELSE RxUndoUnlessSuccess(h,
         rx_single_frame(
           [h1 EXCEPT !.rx.rate_limiter = consume(@, h1.rx.bytes_read, "Bytes")]))

rate_limited_rx_single_frame(h) ==
  IF ~CanConsume(h.rx.rate_limiter, 1, "Ops")
  THEN RxRejected(h, [h EXCEPT !.rx.rate_limiter = consume(@, 1, "Ops"), !.ret = FALSE])
  ELSE RxConsumeBytes(h, [h EXCEPT !.rx.rate_limiter = consume(@, 1, "Ops")])

\* read_tap: a pending fault is an error other than EAGAIN; an empty TAP is EAGAIN
read_tap(h) ==
  IF h.tap.fault = "read"
  THEN [h EXCEPT !.tap.fault = "none", !.rd = [kind |-> "Err", count |-> 0]]
  ELSE IF h.tap.rxq = <<>>
  THEN [h EXCEPT !.rd = [kind |-> "EAGAIN", count |-> 0]]
  ELSE LET f == Head(h.tap.rxq) IN
       [h EXCEPT !.tap.rxq = Tail(@),
                 !.rx.frame = <<"tap", f.id>>,
                 !.rd = [kind |-> "Ok", count |-> Min(f.len, MAX_BUFFER_SIZE)]]

read_from_mmds_or_tap(h) ==
  LET h0 == Log(h, [op |-> "read", deferred_frame |-> h.rx.deferred_frame,
                    pending |-> h.hist.pending])
      r == IF h0.mmds_ns.present /\ h0.mmds_ns.pending > 0
           THEN [h0 EXCEPT !.mmds_ns.pending = @ - 1,
                           !.mmds_ns.tx_frames = @ + 1,
                           !.rx.frame = <<"mmds", h0.mmds_ns.tx_frames + 1>>,
                           !.rd = [kind |-> "Ok", count |-> VNET_HDR_LEN + MmdsReplyLen]]
           ELSE read_tap(h0)
  IN IF r.rd.kind = "Ok"
     THEN [r EXCEPT !.hist.reads = @ + 1, !.hist.pending = TRUE]
     ELSE r

\* if self.rx.deferred_irqs { deferred_irqs = false; signal_used_queue() }
FlushIrqs_never(h) == [h EXCEPT !.rx.deferred_irqs = FALSE]

FlushIrqs_skip(h) == h

FlushIrqs_always(h) == signal_used_queue([h EXCEPT !.rx.deferred_irqs = FALSE])

FlushIrqs(h) ==
  IF h.rx.deferred_irqs
  THEN signal_used_queue([h EXCEPT !.rx.deferred_irqs = FALSE])
  ELSE h

\* Delivery failed inside the drain loop: the frame stays staged
RxDeferFrame_forget(h2) == h2

RxDeferFrame(h2) == [h2 EXCEPT !.rx.deferred_frame = TRUE]

\* Ok(count) => self.rx.bytes_read = count
RxStage_stale(r) == r

RxStage(r) == [r EXCEPT !.rx.bytes_read = r.rd.count]

\* if !self.rate_limited_rx_single_frame() { ...; break; }
RxLoopBreaks_never(h2) == FALSE

RxLoopBreaks(h2) == ~h2.ret

RECURSIVE ProcessRxLoop(_)

\* h2: the handler after rate_limited_rx_single_frame
RxLoopDelivered(h2) ==
  IF RxLoopBreaks(h2)
  THEN RxDeferFrame(h2)
  ELSE ProcessRxLoop(h2)

\* r: the handler after read_from_mmds_or_tap
RxLoopRead(r) ==
  IF r.rd.kind = "EAGAIN" THEN r
  ELSE IF r.rd.kind = "Err" THEN [r EXCEPT !.metrics.rx_fails = @ + 1]
  ELSE RxLoopDelivered(rate_limited_rx_single_frame(RxStage(r)))

ProcessRxLoop(h) == RxLoopRead(read_from_mmds_or_tap(h))

\* The entry of process_rx, with the position of the RX queue
RxEnter(h) == Log(h, [op |-> "process_rx", position |-> h.rx.queue.next_avail])

process_rx_signal_each_pass(h) ==
  Log(signal_used_queue(ProcessRxLoop(RxEnter(h))), [op |-> "process_rx_end"])

process_rx(h) ==
  Log(FlushIrqs(ProcessRxLoop(RxEnter(h))), [op |-> "process_rx_end"])

\* h1: the handler after the retry of the deferred frame
RxRetried_keep_deferred(h1) ==
  IF h1.ret THEN process_rx(h1) ELSE FlushIrqs(h1)

RxRetried(h1) ==
  IF h1.ret
  THEN process_rx([h1 EXCEPT !.rx.deferred_frame = FALSE])
  ELSE FlushIrqs(h1)

resume_rx(h) ==
  IF h.rx.deferred_frame
  THEN RxRetried(rate_limited_rx_single_frame(h))
  ELSE h

----------------------------------------------------------------------------
(* NetEpollHandler: TX path *)

\* The readable prefix of a TX chain: what process_tx pushes into tx.iovec
RECURSIVE TxIovec(_, _)
TxIovec(descs, i) ==
  IF i > Len(descs) \/ descs[i].wo THEN <<>>
  ELSE <<descs[i]>> \o TxIovec(descs, i + 1)

RECURSIVE SumLens(_)
SumLens(iovec) == IF iovec = <<>> THEN 0 ELSE Head(iovec).len + SumLens(Tail(iovec))

\* Reassembly into tx.frame_buf: bytes read and tx_fails increments.
\* Ok(sz) => read_count += sz, and sz stops at the end of the memory region
RECURSIVE TxAssemble(_, _)
TxAssemble(iovec, read_count) ==
  IF iovec = <<>> THEN [read_count |-> read_count, fails |-> 0]
  ELSE LET d == Head(iovec)
           limit == Min(read_count + d.len, MAX_BUFFER_SIZE)
           sz == Min(limit - read_count, d.room)
       IN IF d.mem = "err"
          THEN [read_count |-> read_count, fails |-> 1]
          ELSE TxAssemble(Tail(iovec), read_count + sz)

\* detour_frame: the stack takes the frames addressed to the metadata endpoint
detour_frame(chain) == chain.dst = "mmds"

\* frame_len is frame_buf.len(); ret tells whether MMDS consumed the frame.
\* frame_bytes_from_buf slices off the header and aborts on a shorter buffer
write_to_mmds_or_tap(h, head, chain, frame_len) ==
  IF h.mmds_ns.present /\ frame_len < VNET_HDR_LEN
  THEN [h EXCEPT !.panicked = TRUE, !.ret = FALSE]
  ELSE IF h.mmds_ns.present /\ detour_frame(chain)
  THEN LET h1 == [h EXCEPT !.mmds_ns.rx_accepted = @ + 1,
                           !.mmds_ns.pending = @ + 1,
                           !.tx.rate_limiter =
                               manual_replenish(manual_replenish(@, frame_len, "Bytes"),
                                                1, "Ops"),
                           !.ret = TRUE]
       IN Log(h1, [op |-> "mmds_accept", head |-> head, len |-> frame_len,
                   deferred |-> h.rx.deferred_frame,
                   post |-> Tokens(h1.tx.rate_limiter)])
  ELSE IF h.tap.fault = "write"
  THEN LET h1 == [h EXCEPT !.tap.fault = "none",
                           !.metrics.tx_fails = @ + 1,
                           !.ret = FALSE]
       IN Log(h1, [op |-> "tap_write", head |-> head, len |-> frame_len,
                   ok |-> FALSE, post |-> Tokens(h1.tx.rate_limiter),
                   tx_fails |-> <<h.metrics.tx_fails, h1.metrics.tx_fails>>])
  ELSE LET h1 == Log(h, [op |-> "tap_write", head |-> head, len |-> frame_len,
                         ok |-> TRUE, post |-> Tokens(h.tx.rate_limiter)]) IN
       [h1 EXCEPT !.tap.out = Append(@, [head |-> head, len |-> frame_len]),
                  !.ret = FALSE]

\* h0: the handler when the chain was taken from the queue
TxRejected(h0, h1, head) ==
  Log(h1, [op |-> "tx_reject", head |-> head, pre |-> Tokens(h0.tx.rate_limiter),
           post |-> Tokens(h1.tx.rate_limiter)])

\* The byte consume failed: revert the OPS consume
TxBytesRejected_norefund(h1, read_count) ==
  [h1 EXCEPT !.tx.rate_limiter = consume(@, read_count, "Bytes")]

TxBytesRejected(h1, read_count) ==
  [h1 EXCEPT !.tx.rate_limiter =
                manual_replenish(consume(@, read_count, "Bytes"), 1, "Ops")]

\* && !self.rx.deferred_frame: the response is fetched only into a free buffer
MmdsNeedsRx_ignore_deferred(h4) == h4.ret

MmdsNeedsRx_always(h4) == TRUE

MmdsNeedsRx(h4) == h4.ret /\ ~h4.rx.deferred_frame

\* self.tx.used_desc_heads[used_count] = head_index: the array holds
\* QUEUE_SIZE heads, and an index past its end aborts the thread
UsedDescHeadsOverrun(h4) == [h4 EXCEPT !.panicked = TRUE, !.ret = FALSE]

\* The loop of process_tx.  st: the handler, the heads recorded in
\* used_desc_heads, process_rx_for_mmds and rate_limited
RECURSIVE ProcessTxLoop(_)
ProcessTxLoop(st) ==
  LET h == st.h IN
  IF ~QueueHasNext(h.tx.queue) THEN st
  ELSE
    LET head_index == h.tx.queue.next_avail
        avail_desc == QueuePeek(h.tx.queue)
        h0 == Log([h EXCEPT !.tx.queue = QueueAdvance(@)],
                  [op |-> "tx_iter", head |-> head_index])
    IN
    IF ~CanConsume(h0.tx.rate_limiter, 1, "Ops")
    THEN [st EXCEPT !.rate_limited = TRUE,
                    !.h = TxRejected(h0,
                            [h0 EXCEPT !.tx.rate_limiter = consume(@, 1, "Ops")],
                            head_index)]
    ELSE
      LET h1 == [h0 EXCEPT !.tx.rate_limiter = consume(@, 1, "Ops")]
          iovec == TxIovec(avail_desc.descs, 1)
          read_count == SumLens(iovec)
      IN
      IF ~CanConsume(h1.tx.rate_limiter, read_count, "Bytes")
      THEN [st EXCEPT !.rate_limited = TRUE,
                      !.h = TxRejected(h0, TxBytesRejected(h1, read_count), head_index)]
      ELSE
        LET h2 == Log([h1 EXCEPT !.tx.rate_limiter = consume(@, read_count, "Bytes")],
                      [op |-> "tx_consume", head |-> head_index, bytes |-> read_count,
                       pre |-> Tokens(h0.tx.rate_limiter)])
            a == TxAssemble(iovec, 0)
            h3 == IF a.fails = 0 THEN h2
                  ELSE Log([h2 EXCEPT !.metrics.tx_fails = @ + a.fails],
                           [op |-> "tx_read_err", head |-> head_index,
                            read_count |-> a.read_count,
                            tx_fails |-> <<h2.metrics.tx_fails,
                                           h2.metrics.tx_fails + a.fails>>])
            h4 == write_to_mmds_or_tap(h3, head_index, avail_desc, a.read_count)
        IN
        IF h4.panicked THEN [st EXCEPT !.h = h4]
        ELSE IF Len(st.used) >= QUEUE_SIZE
        THEN [st EXCEPT !.h = UsedDescHeadsOverrun(h4)]
        ELSE ProcessTxLoop(
               [st EXCEPT !.h = h4,
                          !.used = Append(@, head_index),
                          !.process_rx_for_mmds = @ \/ MmdsNeedsRx(h4)])

\* if rate_limited { self.tx.queue.go_to_previous_position() }
TxRewind_never(h, rate_limited) == h

TxRewind_always(h, rate_limited) ==
  IF h.tx.queue.next_avail > 0
  THEN [h EXCEPT !.tx.queue = go_to_previous_position(@)]
  ELSE h

TxRewind(h, rate_limited) ==
  IF rate_limited
  THEN [h EXCEPT !.tx.queue = go_to_previous_position(@)]
  ELSE h

RECURSIVE AddUsedAll(_, _)
AddUsedAll(h, heads) ==
  IF heads = <<>> THEN h
  ELSE AddUsedAll(
         Log([h EXCEPT !.tx.queue = add_used(@, Head(heads), 0)],
             [op |-> "tx_used", head |-> Head(heads)]),
         Tail(heads))

\* for &desc_index in &self.tx.used_desc_heads[..used_count] { add_used }
TxMarkUsed_drop_last(h, heads) ==
  IF heads = <<>> THEN h ELSE AddUsedAll(h, SubSeq(heads, 1, Len(heads) - 1))

TxMarkUsed(h, heads) == AddUsedAll(h, heads)

\* if process_rx_for_mmds { self.process_rx() }
TxKickRx_never(h2, process_rx_for_mmds) == h2

TxKickRx_signal_tx(h2, process_rx_for_mmds) ==
  IF process_rx_for_mmds THEN process_rx(h2) ELSE signal_used_queue(h2)

TxKickRx(h2, process_rx_for_mmds) ==
  IF process_rx_for_mmds THEN process_rx(h2) ELSE h2

\* h3: the handler at the return of process_tx
TxReturn(st, h3) ==
  Log([h3 EXCEPT !.hist.tx_rejected =
                    IF st.rate_limited THEN st.h.tx.queue.next_avail - 1 ELSE -1],
      [op |-> "process_tx_end"])

\* What process_tx does after its loop; st: the result of the loop
TxAfterLoop(st) ==
  IF st.h.panicked THEN st.h
  ELSE TxReturn(st,
         TxKickRx(TxMarkUsed(TxRewind(st.h, st.rate_limited), st.used),
                  st.process_rx_for_mmds))

process_tx(h) ==
  TxAfterLoop(
    ProcessTxLoop(
      [h |-> Log(h, [op |-> "process_tx", tokens |-> Tokens(h.tx.rate_limiter),
                     position |-> h.tx.queue.next_avail,
                     nused |-> Len(h.tx.queue.used),
                     rejected |-> h.hist.tx_rejected]),
       used |-> <<>>, process_rx_for_mmds |-> FALSE, rate_limited |-> FALSE]))

----------------------------------------------------------------------------
(* EpollHandler::handle_event *)

\* RX_TAP_EVENT: the deferred frame goes first; the TAP is not read again
\* until it has been received
RxTapHandler_overwrite(h) ==
  IF is_blocked(h.rx.rate_limiter) THEN h ELSE process_rx(h)

RxTapHandler_ignore_blocked(h) ==
  IF h.rx.deferred_frame
  THEN RxRetried(rate_limited_rx_single_frame(h))
  ELSE process_rx(h)

RxTapHandler(h) ==
  IF is_blocked(h.rx.rate_limiter) THEN h
  ELSE IF h.rx.deferred_frame
  THEN RxRetried(rate_limited_rx_single_frame(h))
  ELSE process_rx(h)

\* RX_RATE_LIMITER_EVENT: the limiter's handler, then resume_rx on Ok
RxLimiterHandler_resume_on_error(h) ==
  IF event_handler_ok(h.rx.rate_limiter)
  THEN resume_rx([h EXCEPT !.rx.rate_limiter = event_handler(@)])
  ELSE resume_rx([h EXCEPT !.metrics.event_fails = @ + 1])

RxLimiterHandler_no_resume(h) ==
  IF event_handler_ok(h.rx.rate_limiter)
  THEN [h EXCEPT !.rx.rate_limiter = event_handler(@)]
  ELSE [h EXCEPT !.metrics.event_fails = @ + 1]

RxLimiterHandler(h) ==
  IF event_handler_ok(h.rx.rate_limiter)
  THEN resume_rx([h EXCEPT !.rx.rate_limiter = event_handler(@)])
  ELSE [h EXCEPT !.metrics.event_fails = @ + 1]

\* _ => panic!("Unknown event type was received.")
UnknownEventHandler_ignore(h) == h

UnknownEventHandler(h) == [h EXCEPT !.panicked = TRUE]

\* EventFd::read(): the counter of the eventfd, which is then 0
EventFdRead(count) == 0

\* evt_ok: whether reading the queue notifier eventfd succeeded; a failed
\* read leaves the counter where it was
handle_event(h, device_event, evt_ok) ==
  IF device_event = RX_TAP_EVENT THEN RxTapHandler(h)
  ELSE IF device_event = RX_QUEUE_EVENT THEN
    LET h1 == IF evt_ok THEN [h EXCEPT !.rx.queue_evt = EventFdRead(@)]
              ELSE [h EXCEPT !.metrics.event_fails = @ + 1] IN
    IF ~is_blocked(h1.rx.rate_limiter) THEN resume_rx(h1) ELSE h1
  ELSE IF device_event = TX_QUEUE_EVENT THEN
    LET h1 == IF evt_ok THEN [h EXCEPT !.tx.queue_evt = EventFdRead(@)]
              ELSE [h EXCEPT !.metrics.event_fails = @ + 1] IN
    IF ~is_blocked(h1.tx.rate_limiter) THEN process_tx(h1) ELSE h1
  ELSE IF device_event = RX_RATE_LIMITER_EVENT THEN RxLimiterHandler(h)
  ELSE IF device_event = TX_RATE_LIMITER_EVENT THEN
    IF event_handler_ok(h.tx.rate_limiter)
    THEN process_tx([h EXCEPT !.tx.rate_limiter = event_handler(@)])
    ELSE [h EXCEPT !.metrics.event_fails = @ + 1]
  ELSE UnknownEventHandler(h)

----------------------------------------------------------------------------
(* Net: the device before and at activation.  A u64 or u32 value is the    *)
(* set of its bit positions that are 1.                                    *)

U64Bits == 0..63
U32Bits == 0..31
U64_MAX == U64Bits

\* n as u64, for 0 <= n < 2^31
ToBits(n) == { i \in 0..30 : (n \div (2 ^ i)) % 2 = 1 }

RECURSIVE FromBits(_)
FromBits(v) ==
  IF v = {} THEN 0
  ELSE LET b == CHOOSE x \in v : TRUE IN (2 ^ b) + FromBits(v \ {b})

\* v fits the host's integers
IsSmall(v) == v \subseteq 0..30

BitAnd(a, b) == a \cap b
BitOr(a, b) == a \cup b
BitNot(a) == U64Bits \ a
\* (value as u64) << 32 and (v >> 32)
Shl32(v) == { b + 32 : b \in v } \cap U64Bits
Shr32(v) == { b - 32 : b \in { x \in v : x >= 32 } }
AsU32(v) == v \cap U32Bits

\* a <= b as unsigned integers
U64Le(a, b) ==
  LET d == (a \ b) \cup (b \ a)
  IN d = {} \/ (CHOOSE x \in d : \A y \in d : y <= x) \in b

\* a + b on 64 bits: the wrapped sum and whether it overflowed.  The carry
\* into bit i is generated at some lower bit and propagated up to i.
CarryInto(a, b, i) ==
  \E j \in 0..(i - 1) :
    /\ j \in a /\ j \in b
    /\ \A k \in (j + 1)..(i - 1) : k \in a \/ k \in b

U64Add(a, b) ==
  [sum |-> { i \in U64Bits : ((i \in a) # (i \in b)) # CarryInto(a, b, i) },
   overflow |-> CarryInto(a, b, 64)]

\* guest_mac: None, or the bytes of 11:22:33:44:55:66
GuestMacs == { <<>>, [i \in 1..MAC_ADDR_LEN |-> 17 * i] }

NoCall == [op |-> "new", page |-> 0, value |-> {}, offset |-> {}, data |-> <<>>,
           out |-> <<>>, queues |-> 0, queue_evts |-> 0, fault |-> -1, ret |-> "",
           bits |-> {}, send_ok |-> TRUE]

\* Err(e) of a constructor: no Net value exists; its fields stand empty and
\* no method can be called
NoNet(err) ==
  [tap |-> FALSE, avail_features |-> {}, acked_features |-> {}, config_space |-> <<>>,
   rx_rate_limiter |-> FALSE, tx_rate_limiter |-> FALSE, allow_mmds_requests |-> FALSE,
   cfg_fails |-> 0, activate_fails |-> 0, handlers |-> <<>>, registered |-> {},
   panicked |-> FALSE, calls |-> 0, last |-> NoCall, err |-> err]

\* Net::new_with_tap; tap_fault: the TAP call that fails ("none": none)
new_with_tap(guest_mac, rx_rate_limiter, tx_rate_limiter, allow_mmds_requests, tap_fault) ==
  IF tap_fault = "set_offload" THEN NoNet("TapSetOffload")
  ELSE IF tap_fault = "set_vnet_hdr_size" THEN NoNet("TapSetVnetHdrSize")
  ELSE
  [tap |-> TRUE,
   avail_features |->
     BitOr({ VIRTIO_NET_F_GUEST_CSUM, VIRTIO_NET_F_CSUM, VIRTIO_NET_F_GUEST_TSO4,
             VIRTIO_NET_F_GUEST_UFO, VIRTIO_NET_F_HOST_TSO4, VIRTIO_NET_F_HOST_UFO,
             VIRTIO_F_VERSION_1 },
           IF guest_mac # <<>> THEN { VIRTIO_NET_F_MAC } ELSE {}),
   acked_features |-> {},
   config_space |-> guest_mac,
   rx_rate_limiter |-> rx_rate_limiter,
   tx_rate_limiter |-> tx_rate_limiter,
   allow_mmds_requests |-> allow_mmds_requests,
   cfg_fails |-> 0,
   activate_fails |-> 0,
   handlers |-> <<>>,
   registered |-> {},
   panicked |-> FALSE,
   calls |-> 0,
   last |-> NoCall,
   err |-> ""]

\* Net::new: opens and configures the TAP, then new_with_tap
new(guest_mac, rx_rate_limiter, tx_rate_limiter, allow_mmds_requests, tap_fault) ==
  IF tap_fault = "new" THEN NoNet("TapOpen")
  ELSE IF tap_fault = "set_ip_addr" THEN NoNet("TapSetIp")
  ELSE IF tap_fault = "set_netmask" THEN NoNet("TapSetNetmask")
  ELSE IF tap_fault = "enable" THEN NoNet("TapEnable")
  ELSE new_with_tap(guest_mac, rx_rate_limiter, tx_rate_limiter, allow_mmds_requests,
                    tap_fault)

Called(d, call) == [d EXCEPT !.last = call, !.calls = @ + 1]

\* fn features(&self, page: u32) -> u32
features(d, page) ==
  Called(d, [NoCall EXCEPT !.op = "features", !.page = page,
                           !.bits = IF page = 0 THEN AsU32(d.avail_features)
                                    ELSE IF page = 1 THEN AsU32(Shr32(d.avail_features))
                                    ELSE {}])

\* v &= !unrequested_features
AckMask_none(v, avail_features) == v

AckMask(v, avail_features) ==
  LET unrequested_features == BitAnd(v, BitNot(avail_features))
  IN IF unrequested_features # {} THEN BitAnd(v, BitNot(unrequested_features)) ELSE v

\* fn ack_features(&mut self, page: u32, value: u32)
ack_features(d, page, value) ==
  LET v == IF page = 0 THEN value
           ELSE IF page = 1 THEN Shl32(value)
           ELSE {}
      d1 == [d EXCEPT !.acked_features = BitOr(@, AckMask(v, d.avail_features))]
  IN Called(d1, [NoCall EXCEPT !.op = "ack_features", !.page = page, !.value = value])

\* error!("Failed to read config space"); METRICS.net.cfg_fails.inc(); return
ReadConfigRejected_silent(d) == d

ReadConfigRejected(d) == [d EXCEPT !.cfg_fails = @ + 1]

\* fn read_config(&self, offset: u64, mut data: &mut [u8])
read_config(d, offset, data) ==
  LET config_len == Len(d.config_space)
      call == [NoCall EXCEPT !.op = "read_config", !.offset = offset, !.data = data]
  IN IF U64Le(ToBits(config_len), offset)
     THEN Called(ReadConfigRejected(d), [call EXCEPT !.out = data])
     ELSE LET end == U64Add(offset, ToBits(Len(data))) IN
          IF end.overflow
          THEN Called(d, [call EXCEPT !.out = data])
          ELSE LET first == FromBits(offset)
                   last == IF U64Le(end.sum, ToBits(config_len))
                           THEN FromBits(end.sum) ELSE config_len
                   src == SubSeq(d.config_space, first + 1, last)
               IN Called(d, [call EXCEPT
                               !.out = src \o SubSeq(data, Len(src) + 1, Len(data))])

\* A slice operation aborted the calling thread
DevPanic(d, call) == Called([d EXCEPT !.panicked = TRUE], [call EXCEPT !.ret = "panic"])

\* error!("Failed to write config space"); METRICS.net.cfg_fails.inc(); return
WriteConfigRejected(d) == [d EXCEPT !.cfg_fails = @ + 1]

\* right.copy_from_slice(&data[..]): the two lengths must be equal
CopyFromSliceOk(right, data) == Len(right) = Len(data)

\* fn write_config(&mut self, offset: u64, data: &[u8]); overflow_checks: the
\* build traps on integer overflow (debug) or wraps (release)
write_config(d, offset, data, overflow_checks) ==
  LET config_len == Len(d.config_space)
      end == U64Add(offset, ToBits(Len(data)))
      call == [NoCall EXCEPT !.op = "write_config", !.offset = offset, !.data = data]
  IN IF end.overflow /\ overflow_checks
     THEN DevPanic(d, call)
     ELSE IF ~U64Le(end.sum, ToBits(config_len))
     THEN Called(WriteConfigRejected(d), [call EXCEPT !.ret = "rejected"])
     ELSE IF ~U64Le(offset, ToBits(config_len))
     THEN DevPanic(d, call)
     ELSE LET mid == FromBits(offset)
              left == SubSeq(d.config_space, 1, mid)
              right == SubSeq(d.config_space, mid + 1, config_len)
          IN IF ~CopyFromSliceOk(right, data)
             THEN DevPanic(d, call)
             ELSE Called([d EXCEPT !.config_space = left \o data],
                         [call EXCEPT !.ret = "written"])

\* queues.len() != NUM_QUEUES || queue_evts.len() != NUM_QUEUES
ActivateBadCounts_takes_tap(d) ==
  [d EXCEPT !.activate_fails = @ + 1, !.tap = FALSE]

ActivateBadCounts(d) == [d EXCEPT !.activate_fails = @ + 1]

\* self.tap.take()
ActivateTakeTap_keep(d) == d

ActivateTakeTap(d) == [d EXCEPT !.tap = FALSE]

\* The epoll registrations of activate, in order: the token and whether a
\* failure is counted in activate_fails.  A limiter that is absent has no
\* timer fd (as_raw_fd() = -1) and is not registered.
Registrations(rx_limited, tx_limited) ==
  << [token |-> RX_TAP_EVENT, counted |-> TRUE],
     [token |-> RX_QUEUE_EVENT, counted |-> TRUE],
     [token |-> TX_QUEUE_EVENT, counted |-> TRUE] >>
  \o (IF rx_limited THEN << [token |-> RX_RATE_LIMITER_EVENT, counted |-> FALSE] >> ELSE <<>>)
  \o (IF tx_limited THEN << [token |-> TX_RATE_LIMITER_EVENT, counted |-> FALSE] >> ELSE <<>>)

\* epoll::ctl(.., EPOLL_CTL_ADD, ..)? for each registration; `fault` is the
\* token whose registration the host refuses (-1: none)
RECURSIVE EpollAddAll(_, _, _)
EpollAddAll(d, regs, fault) ==
  IF regs = <<>> THEN [d |-> d, ret |-> "Ok"]
  ELSE IF Head(regs).token = fault
  THEN [d |-> IF Head(regs).counted THEN [d EXCEPT !.activate_fails = @ + 1] ELSE d,
        ret |-> "EpollCtl"]
  ELSE EpollAddAll([d EXCEPT !.registered = @ \cup { Head(regs).token }],
                   Tail(regs), fault)

\* fn activate(&mut self, mem, interrupt_evt, status, queues, queue_evts);
\* send_ok: the epoll thread still holds the receiving end of the channel, or
\* sender.send(..).expect(..) aborts the caller, the TAP and the limiters
\* already taken out of the device
activate(d, queues, queue_evts, fault, send_ok) ==
  LET call == [NoCall EXCEPT !.op = "activate", !.queues = queues,
                             !.queue_evts = queue_evts, !.fault = fault,
                             !.send_ok = send_ok]
  IN IF queues # NUM_QUEUES \/ queue_evts # NUM_QUEUES
     THEN Called(ActivateBadCounts(d), [call EXCEPT !.ret = "BadActivate"])
     ELSE IF d.tap
     THEN LET handler == [rx_limited |-> d.rx_rate_limiter,
                          tx_limited |-> d.tx_rate_limiter,
                          acked_features |-> d.acked_features,
                          mmds_ns |-> d.allow_mmds_requests]
              d0 == [ActivateTakeTap(d) EXCEPT !.rx_rate_limiter = FALSE,
                                               !.tx_rate_limiter = FALSE]
              d1 == [d0 EXCEPT !.handlers = Append(@, handler)]
              r == EpollAddAll(d1, Registrations(handler.rx_limited, handler.tx_limited),
                               fault)
          IN IF send_ok THEN Called(r.d, [call EXCEPT !.ret = r.ret])
             ELSE DevPanic(d0, call)
     ELSE Called([d EXCEPT !.activate_fails = @ + 1], [call EXCEPT !.ret = "BadActivate"])

----------------------------------------------------------------------------
(* State machine *)

\* The device once activate has handed its TAP to the handler; the limiters
\* and the MMDS switch given to new_with_tap are the handler's
Activated(rcfg, tcfg, allow_mmds_requests) ==
  activate(new_with_tap(<<>>, rcfg # <<0, 0>>, tcfg # <<0, 0>>, allow_mmds_requests,
                        "none"),
           NUM_QUEUES, NUM_QUEUES, -1, TRUE)

\* interrupt_status is shared with the transport, which may have set the
\* bits of its other interrupt sources; fault: the next write to
\* interrupt_evt fails
StatusAtActivate == {0, 2}

NewIrq(status) == [status |-> status, evt |-> 0, fault |-> FALSE]

NewHist == [trace |-> <<>>, ev |-> -1, reads |-> 0, pending |-> FALSE,
            used_since_signal |-> 0, short |-> {}, tx_rejected |-> -1]

Init ==
  /\ \E rcfg \in LimiterConfigs, tcfg \in LimiterConfigs, allow_mmds_requests \in BOOLEAN :
       /\ rx = [queue |-> NewQueue, rate_limiter |-> NewLimiter(rcfg),
                deferred_frame |-> FALSE, deferred_irqs |-> FALSE,
                bytes_read |-> 0, frame |-> <<"none", 0>>, queue_evt |-> 0]
       /\ tx = [queue |-> NewQueue, rate_limiter |-> NewLimiter(tcfg), queue_evt |-> 0]
       /\ mmds_ns = [present |-> allow_mmds_requests, pending |-> 0,
                     rx_accepted |-> 0, tx_frames |-> 0]
       /\ dev = Activated(rcfg, tcfg, allow_mmds_requests)
  /\ tap = [rxq |-> <<>>, out |-> <<>>, fault |-> "none", arrived |-> 0]
  /\ inputs = 0
  /\ \E status \in StatusAtActivate : irq = NewIrq(status)
  /\ metrics = [rx_fails |-> 0, tx_fails |-> 0, event_fails |-> 0, rx_packets_count |-> 0]
  /\ panicked = FALSE
  /\ hist = NewHist

\* The handler's fields as one record, with an empty trace for the call
Handler(ev) ==
  [rx |-> rx, tx |-> tx, tap |-> tap, mmds_ns |-> mmds_ns, irq |-> irq,
   metrics |-> metrics, panicked |-> panicked,
   hist |-> [hist EXCEPT !.trace = <<>>, !.ev = ev],
   ret |-> FALSE, rd |-> [kind |-> "EAGAIN", count |-> 0]]

Commit(h) ==
  /\ rx' = h.rx
  /\ tx' = h.tx
  /\ tap' = h.tap
  /\ mmds_ns' = h.mmds_ns
  /\ irq' = h.irq
  /\ metrics' = h.metrics
  /\ panicked' = h.panicked
  /\ hist' = h.hist
  /\ dev' = dev

\* Only the queue events read a notifier eventfd.  The read returns Ok only
\* when the counter is not 0 (on a counter of 0 it waits); it can fail
\* whatever the counter
EvtReads(ev) ==
  IF ev = RX_QUEUE_EVENT THEN { ok \in BOOLEAN : ok => rx.queue_evt > 0 }
  ELSE IF ev = TX_QUEUE_EVENT THEN { ok \in BOOLEAN : ok => tx.queue_evt > 0 }
  ELSE {TRUE}

\* An event kind outside the five the handler registers
UnknownEvents == {NET_EVENTS_COUNT, NET_EVENTS_COUNT + 1}

\* A failed notification and a spurious event kind count as inputs (a failed
\* write to interrupt_evt was counted when the fault was injected)
\* h: the handler when handle_event returned
Returned_handle_event(ev, h) ==
  LET signal_errs == Cardinality({ i \in DOMAIN h.hist.trace :
                                     h.hist.trace[i].op = "signal_err" })
      failed == (h.metrics.event_fails - metrics.event_fails - signal_errs)
                  + (IF ev \in UnknownEvents THEN 1 ELSE 0)
  IN /\ inputs + failed <= MaxInputs
     /\ inputs' = inputs + failed
     /\ Commit(h)

HandleEvent(ev) ==
  /\ ~panicked
  /\ \E evt_ok \in EvtReads(ev) :
       Returned_handle_event(ev, handle_event(Handler(ev), ev, evt_ok))

RxTapEvent == HandleEvent(RX_TAP_EVENT)
RxQueueEvent == HandleEvent(RX_QUEUE_EVENT)
TxQueueEvent == HandleEvent(TX_QUEUE_EVENT)
RxRateLimiterEvent == HandleEvent(RX_RATE_LIMITER_EVENT)
TxRateLimiterEvent == HandleEvent(TX_RATE_LIMITER_EVENT)
UnknownEvent == \E ev \in UnknownEvents : HandleEvent(ev)

\* Environment steps leave the handler alone; the trace of the last call is dropped
EnvHist ==
  /\ hist' = [hist EXCEPT !.trace = <<>>, !.ev = -1]
  /\ dev' = dev

Input ==
  /\ ~panicked
  /\ inputs < MaxInputs
  /\ inputs' = inputs + 1
  /\ EnvHist

GuestPostRx ==
  /\ Input
  /\ \E cs \in RxPosts : rx' = [rx EXCEPT !.queue.avail = @ \o cs, !.queue_evt = @ + 1]
  /\ UNCHANGED <<tx, tap, mmds_ns, irq, metrics, panicked>>

GuestPostTx ==
  /\ Input
  /\ \E cs \in TxPosts : tx' = [tx EXCEPT !.queue.avail = @ \o cs, !.queue_evt = @ + 1]
  /\ UNCHANGED <<rx, tap, mmds_ns, irq, metrics, panicked>>

TapArrive ==
  /\ Input
  /\ \E lens \in TapBursts :
       tap' = [tap EXCEPT !.rxq = @ \o [i \in DOMAIN lens |->
                                          [id |-> tap.arrived + i, len |-> lens[i]]],
                          !.arrived = @ + Len(lens)]
  /\ UNCHANGED <<rx, tx, mmds_ns, irq, metrics, panicked>>

TapFault ==
  /\ Input
  /\ tap.fault = "none"
  /\ \E k \in {"read", "write"} : tap' = [tap EXCEPT !.fault = k]
  /\ UNCHANGED <<rx, tx, mmds_ns, irq, metrics, panicked>>

\* The next write to the interrupt eventfd fails
IrqFault ==
  /\ Input
  /\ ~irq.fault
  /\ irq' = [irq EXCEPT !.fault = TRUE]
  /\ UNCHANGED <<rx, tx, tap, mmds_ns, metrics, panicked>>

RefillKinds == { {"Ops"}, {"Bytes"}, {"Ops", "Bytes"} }

RxTimePasses ==
  /\ ~panicked
  /\ \E kinds \in RefillKinds :
       /\ rx.rate_limiter # refill(rx.rate_limiter, kinds)
       /\ rx' = [rx EXCEPT !.rate_limiter = refill(@, kinds)]
  /\ EnvHist
  /\ UNCHANGED <<tx, tap, mmds_ns, irq, metrics, panicked, inputs>>

TxTimePasses ==
  /\ ~panicked
  /\ \E kinds \in RefillKinds :
       /\ tx.rate_limiter # refill(tx.rate_limiter, kinds)
       /\ tx' = [tx EXCEPT !.rate_limiter = refill(@, kinds)]
  /\ EnvHist
  /\ UNCHANGED <<rx, tap, mmds_ns, irq, metrics, panicked, inputs>>

Next ==
  \/ RxTapEvent
  \/ RxQueueEvent
  \/ TxQueueEvent
  \/ RxRateLimiterEvent
  \/ TxRateLimiterEvent
  \/ UnknownEvent
  \/ GuestPostRx
  \/ GuestPostTx
  \/ TapArrive
  \/ TapFault
  \/ IrqFault
  \/ RxTimePasses
  \/ TxTimePasses

Spec == Init /\ [][Next]_vars

----------------------------------------------------------------------------
(* The receive side on its own, with the scheduling the epoll loop and the  *)
(* limiter's timer give: a pending event is eventually handled, and the     *)
(* buckets eventually refill.                                               *)

\* The handler as constructed for a guest that only receives; the byte bucket
\* may be smaller than a frame
RxLimiterConfigs == LimiterConfigs \cup { <<OpsCap, SmallBytesCap>> }

RxInit ==
  /\ \E rcfg \in RxLimiterConfigs :
       /\ rx = [queue |-> NewQueue, rate_limiter |-> NewLimiter(rcfg),
                deferred_frame |-> FALSE, deferred_irqs |-> FALSE,
                bytes_read |-> 0, frame |-> <<"none", 0>>, queue_evt |-> 0]
       /\ dev = Activated(rcfg, <<0, 0>>, FALSE)
  /\ tx = [queue |-> NewQueue, rate_limiter |-> NewLimiter(<<0, 0>>), queue_evt |-> 0]
  /\ mmds_ns = [present |-> FALSE, pending |-> 0, rx_accepted |-> 0, tx_frames |-> 0]
  /\ tap = [rxq |-> <<>>, out |-> <<>>, fault |-> "none", arrived |-> 0]
  /\ inputs = 0
  /\ irq = NewIrq(0)
  /\ metrics = [rx_fails |-> 0, tx_fails |-> 0, event_fails |-> 0, rx_packets_count |-> 0]
  /\ panicked = FALSE
  /\ hist = NewHist

RxRefillAll ==
  /\ ~panicked
  /\ rx.rate_limiter # refill(rx.rate_limiter, {"Ops", "Bytes"})
  /\ rx' = [rx EXCEPT !.rate_limiter = refill(@, {"Ops", "Bytes"})]
  /\ EnvHist
  /\ UNCHANGED <<tx, tap, mmds_ns, irq, metrics, panicked, inputs>>

RxNext ==
  \/ RxTapEvent
  \/ RxQueueEvent
  \/ RxRateLimiterEvent
  \/ GuestPostRx
  \/ TapArrive
  \/ RxTimePasses

\* epoll reports the limiter's timer fd once the armed timer has expired
RxLimitPending == ~panicked /\ event_handler_ok(rx.rate_limiter)

\* epoll reports the RX queue notifier while its counter is not 0
RxQueuePending == ~panicked /\ rx.queue_evt > 0

\* epoll reports the TAP (level-triggered) while it holds a frame
RxTapPending == ~panicked /\ tap.rxq # <<>>

\* handle_event(RX_TAP_EVENT) called in this state returns with every field
\* as it found it (the limiter is blocked, or the staged frame has no chain
\* to go to): the call is a step that changes nothing
RxTapIdle ==
  LET h == handle_event(Handler(RX_TAP_EVENT), RX_TAP_EVENT, TRUE)
  IN /\ h.rx = rx
     /\ h.tap = tap
     /\ h.irq = irq
     /\ h.metrics = metrics
     /\ h.panicked = panicked
     /\ h.hist = hist

\* A pending RX_LIMIT or RX_QUEUE event is handled by a step that changes
\* the state (the limiter unblocks, the notifier counter is cleared).  While
\* the TAP is readable handle_event(RX_TAP_EVENT) is called again and again;
\* each call either changes the state or is made in a state where it changes
\* nothing.
RxLiveSpec ==
  /\ RxInit
  /\ [][RxNext]_vars
  /\ WF_vars(RxRefillAll)
  /\ ([]<>~RxLimitPending \/ []<><<RxRateLimiterEvent>>_vars)
  /\ ([]<>~RxQueuePending \/ []<><<RxQueueEvent>>_vars)
  /\ ([]<>~RxTapPending \/ []<>RxTapIdle \/ []<><<RxTapEvent>>_vars)

----------------------------------------------------------------------------
(* Properties.  hist.trace holds the calls of the handle_event that led to  *)
(* the current state, so a state predicate over it speaks of every call of *)
(* every event.                                                             *)

Trace == hist.trace
Ops(tag) == { i \in DOMAIN Trace : Trace[i].op = tag }
Returned(tag) == Ops(tag) # {}

\* The calls of signal_used_queue, whether or not the write to the
\* interrupt eventfd succeeded
SignalCalls == Ops("signal") \cup Ops("signal_err")

\* signal_used_queue ran once in the step: the VRING bit is set and the other
\* bits of interrupt_status stay, and the eventfd counter moves by one unless
\* the write failed
SignalledOnce ==
  LET t == hist'.trace
      calls == { i \in DOMAIN t : t[i].op \in {"signal", "signal_err"} }
  IN /\ Cardinality(calls) = 1
     /\ irq'.status % 2 = 1
     /\ irq'.status \div 2 = irq.status \div 2
     /\ irq'.evt = irq.evt + Cardinality({ i \in calls : t[i].op = "signal" })
     /\ \A i \in calls : t[i].op = "signal_err" <=> irq.fault

\* C1: whenever rate_limited_rx_single_frame returns false (ops refused,
\* bytes refused, or rx_single_frame failed), the RX limiter holds the same
\* op and byte tokens as when the call began.
C1_RxRejectionRefundsAll ==
  \A i \in Ops("rx_reject") : Trace[i].post = Trace[i].pre

\* C2: when the TX limiter rejects a chain in process_tx, its tokens equal
\* those held just before that chain was attempted, and the tokens taken by
\* the chains sent to the TAP earlier in the same call stay consumed.
C2_TxRejectionRefundsOnlyRejected ==
  \A i \in Ops("tx_reject") :
    /\ Trace[i].post = Trace[i].pre
    /\ tx.rate_limiter.opsCap > 0 =>
         \A b \in Ops("process_tx") :
           Trace[i].post[1] =
             Trace[b].tokens[1]
               - Cardinality({ j \in Ops("tap_write") : b < j /\ j < i })

\* A chain rejected on its byte consume (the op token had been taken), and a
\* chain rejected after an earlier chain of the same call went to the TAP.
C2_Witness ==
  \E i \in Ops("tx_reject") :
    /\ tx.rate_limiter.opsCap > 0
    /\ Trace[i].pre[1] >= 1

C2_WitnessEarlier ==
  \E i \in Ops("tx_reject") :
    /\ tx.rate_limiter.opsCap > 0
    /\ \E j \in Ops("tap_write") : j < i

\* C3: when process_tx stops on a limiter rejection, the rejected chain is
\* not marked used, nothing of it reaches TAP or MMDS, the queue position is
\* back on that chain, and the next process_tx call takes that chain first.
C3_RejectedChainIsRewoundAndRetriedFirst ==
  /\ \A i \in Ops("tx_reject") :
       Returned("process_tx_end") =>
         LET k == Trace[i].head IN
         /\ tx.queue.next_avail = k
         /\ hist.tx_rejected = k
         /\ \A j \in Ops("tx_used") \cup Ops("tap_write") \cup Ops("mmds_accept") :
              Trace[j].head # k
         /\ \A u \in DOMAIN tx.queue.used : tx.queue.used[u].head # k
  /\ \A b \in Ops("process_tx") :
       Trace[b].rejected >= 0 =>
         /\ Trace[b].position = Trace[b].rejected
         /\ b + 1 \in Ops("tx_iter")
         /\ Trace[b + 1].head = Trace[b].rejected

\* A process_tx call that starts on a chain rejected by the previous call,
\* with a later chain waiting behind it, and now gets it through.
C3_Witness ==
  \E b \in Ops("process_tx") :
    /\ Trace[b].rejected >= 0
    /\ Len(tx.queue.avail) > Trace[b].rejected + 1
    /\ \E j \in Ops("tx_used") : Trace[j].head = Trace[b].rejected

\* C4 as stated: every head the TX iteration returned during a process_tx
\* call that returned has exactly one add_used in that call.
C4_EveryIteratedHeadUsedOnce ==
  Returned("process_tx_end") =>
    \A i \in Ops("tx_iter") :
      Cardinality({ j \in Ops("tx_used") : Trace[j].head = Trace[i].head }) = 1

\* C4 amended: in a process_tx call that returns, every head the iteration
\* returned and the limiter accepted has exactly one add_used; the head the
\* limiter rejected has none.
C4_EveryAcceptedHeadUsedOnce ==
  Returned("process_tx_end") =>
    \A i \in Ops("tx_iter") :
      Cardinality({ j \in Ops("tx_used") : Trace[j].head = Trace[i].head })
        = IF \E r \in Ops("tx_reject") : Trace[r].head = Trace[i].head THEN 0 ELSE 1

\* A returned process_tx call that processed one chain and rejected the next.
C4_Witness ==
  /\ Returned("process_tx_end")
  /\ Ops("tx_used") # {}
  /\ Ops("tx_reject") # {}

\* C5: read_from_mmds_or_tap is never called while deferred_frame is set,
\* nor while the frame read last is still undelivered, so a staged frame is
\* never overwritten.
C5_NoReadWhileDeferred ==
  \A i \in Ops("read") : ~Trace[i].deferred_frame /\ ~Trace[i].pending

\* A deferred frame is delivered and the sources are read again in the same
\* event; and a TX call that fed MMDS while a frame was deferred.
C5_Witness ==
  \E i \in Ops("rx_used"), j \in Ops("read") :
    /\ i < j
    /\ Trace[i].complete
    /\ \A k \in Ops("read") : i < k

C5_WitnessTx ==
  /\ Ops("mmds_accept") # {}
  /\ Returned("process_tx_end")
  /\ rx.deferred_frame
  /\ mmds_ns.pending > 0

\* C6: every interrupt signal comes after at least one add_used on the RX
\* ring made since the previous signal (or since the handler was created).
C6_SignalOnlyAfterUsed ==
  \A i \in SignalCalls : Trace[i].since >= 1

C6_Witness ==
  /\ Ops("signal") # {}
  /\ irq.evt >= 2

ProcessRxCalls ==
  { <<b, e>> \in Ops("process_rx") \X Ops("process_rx_end") :
      /\ b < e
      /\ \A k \in Ops("process_rx_end") : ~(b < k /\ k < e) }

\* C7 as stated: a process_rx call signals at most once, and only when a
\* used entry was added during that same call.
C7_SignalOnlyForOwnUsed ==
  \A c \in ProcessRxCalls :
    LET sig == { i \in SignalCalls : c[1] < i /\ i < c[2] }
        used == { i \in Ops("rx_used") : c[1] < i /\ i < c[2] }
    IN Cardinality(sig) <= 1 /\ (sig # {} => used # {})

\* C7 amended: a process_rx call signals at most once, and only when a used
\* entry was added earlier in the same handle_event call, inside process_rx
\* or by the delivery of the deferred frame right before it.
C7_SignalOnlyForUsedOfSameEvent ==
  \A c \in ProcessRxCalls :
    LET sig == { i \in SignalCalls : c[1] < i /\ i < c[2] }
    IN /\ Cardinality(sig) <= 1
       /\ \A i \in sig : \E u \in Ops("rx_used") : u < i
       /\ \A i \in SignalCalls : \A j \in SignalCalls : i = j

\* A process_rx call that delivered two frames and signalled once.
C7_Witness ==
  \E c \in ProcessRxCalls :
    /\ Cardinality({ i \in Ops("rx_used") : c[1] < i /\ i < c[2] }) >= 2
    /\ \E i \in Ops("signal") : c[1] < i /\ i < c[2]

\* C8 as stated: the RX used ring never holds more entries than frames were
\* read from the sources.
C8_UsedAtMostReads == Len(rx.queue.used) <= hist.reads

\* C8 amended: the number of frames completely delivered to the RX ring is
\* at most the number of frames read; the ring may hold more entries, since
\* each failed attempt of a retried frame uses up one more chain.
C8_DeliveredAtMostReads == metrics.rx_packets_count <= hist.reads

C8_Witness ==
  /\ metrics.rx_packets_count = 2
  /\ hist.reads = 2

\* C9 as stated: a frame whose chain was too short is never written into
\* another chain later.
C9_ShortFrameNeverRetried ==
  \A i \in Ops("rx_used") : ~Trace[i].retry

\* C9 amended: when the chain is too short, the head is marked used with
\* the partial length, rx_fails goes up by one, rx_single_frame returns
\* false, and the frame stays staged with deferred_frame set, to be retried
\* with the next chain.
C9_ShortChainKeepsFrameStaged ==
  \A i \in Ops("rx_used") :
    Trace[i].why = "short" =>
      /\ ~Trace[i].complete
      /\ Trace[i].len < Trace[i].bytes_read
      /\ Len(Trace[i].segs) = Len(rx.queue.avail[Trace[i].head + 1])
      /\ Trace[i].len = Trace[i].segs[Len(Trace[i].segs)].to
      /\ Trace[i].len <= SumLens(rx.queue.avail[Trace[i].head + 1])
      /\ rx.queue.used[Len(rx.queue.used)] = [head |-> Trace[i].head, len |-> Trace[i].len]
      /\ Trace[i].fails = 1
      /\ metrics.rx_fails >= 1
      /\ \A j \in Ops("rx_used") \cup Ops("read") : j <= i
      /\ rx.deferred_frame
      /\ rx.frame = Trace[i].frame
      /\ rx.bytes_read = Trace[i].bytes_read

C9_Witness ==
  \E i \in Ops("rx_used") : Trace[i].why = "short" /\ Trace[i].len > 0

\* C10: deferred_frame is set exactly when the frame most recently read
\* from MMDS or TAP has not been delivered to the guest.
C10_DeferredIffLastReadUndelivered == rx.deferred_frame <=> hist.pending

C10_Witness ==
  /\ rx.deferred_frame
  /\ hist.pending
  /\ metrics.rx_packets_count >= 1

\* C11: a staged (deferred) frame always has a positive length, and
\* bytes_read always lies between 0 and the size of the frame buffer.
C11_DeferredHasBytes ==
  /\ rx.deferred_frame => rx.bytes_read > 0
  /\ 0 <= rx.bytes_read
  /\ rx.bytes_read <= MAX_BUFFER_SIZE

\* A frame that fills the whole buffer is staged.
C11_Witness ==
  /\ rx.deferred_frame
  /\ rx.bytes_read = MAX_BUFFER_SIZE

\* C12: every TX chain the limiter let through went to exactly one sink:
\* either the MMDS stack consumed it or a TAP write was attempted with it.
C12_EveryChainToExactlyOneSink ==
  \A i \in Ops("tx_consume") :
    Cardinality({ j \in Ops("mmds_accept") \cup Ops("tap_write") :
                    Trace[j].head = Trace[i].head }) = 1

\* C13 as stated: once an event after the accepting TX event has been
\* handled on the RX side, no response is left waiting, whatever the state
\* of the RX path.
C13_ResponseWithinOneTick ==
  (hist.ev \in {RX_TAP_EVENT, RX_QUEUE_EVENT, RX_RATE_LIMITER_EVENT}
     /\ Ops("mmds_accept") = {})
    => /\ mmds_ns.pending = 0
       /\ ~(rx.deferred_frame /\ rx.frame[1] = "mmds")

\* C13 amended: a process_tx call that accepted a frame for MMDS while no
\* frame was deferred calls process_rx once it has marked its heads used,
\* and process_rx takes the responses out of the stack until none is left or
\* a delivery fails and the frame read last becomes the deferred frame; a
\* call whose accepts all happened behind a deferred frame reads nothing and
\* leaves the responses in the stack.  A response waits in the stack only
\* behind a deferred frame.
C13_ResponseFetchedUnlessDeferred ==
  /\ \A e \in Ops("process_tx_end") :
       LET acc == Ops("mmds_accept") IN
       /\ (\E i \in acc : ~Trace[i].deferred) =>
            /\ \E b \in Ops("process_rx") :
                 /\ \A u \in Ops("tx_used") : u < b
                 /\ b + 1 \in Ops("read")
                 /\ \A c \in Ops("process_rx") : c = b
            /\ mmds_ns.pending = 0 \/ rx.deferred_frame
            /\ \A u \in Ops("rx_used") :
                 Trace[u].frame[1] = "mmds" \/
                   \E v \in Ops("rx_used") : v < u /\ Trace[v].frame[1] = "mmds"
       /\ (acc # {} /\ \A i \in acc : Trace[i].deferred) =>
            /\ Ops("read") = {}
            /\ Ops("rx_used") = {}
            /\ mmds_ns.pending >= Cardinality(acc)
            /\ rx.deferred_frame
  /\ (~panicked /\ mmds_ns.pending > 0) => rx.deferred_frame

\* The response reaches the RX used ring in the accepting TX event itself.
C13_Witness ==
  /\ Returned("process_tx_end")
  /\ \E i \in Ops("mmds_accept") : ~Trace[i].deferred
  /\ \E u \in Ops("rx_used") : Trace[u].frame[1] = "mmds" /\ Trace[u].complete

\* C14: a frame accepted by MMDS leaves the TX limiter's tokens as they were
\* before its chain was taken (what was consumed is refunded in full), and a
\* frame handed to the TAP keeps exactly what was consumed for it: one op
\* and the bytes of its readable descriptors.
C14_NetTokensAllOrNothing ==
  \A c \in Ops("tx_consume") :
    /\ \A i \in Ops("mmds_accept") :
         Trace[i].head = Trace[c].head => Trace[i].post = Trace[c].pre
    /\ \A w \in Ops("tap_write") :
         Trace[w].head = Trace[c].head =>
           /\ tx.rate_limiter.opsCap > 0 => Trace[w].post[1] = Trace[c].pre[1] - 1
           /\ tx.rate_limiter.bytesCap > 0 =>
                Trace[w].post[2] = Trace[c].pre[2] - Trace[c].bytes

\* C15: the n-th frame delivered completely to the RX ring is the n-th frame
\* read_from_mmds_or_tap returned (so no frame overtakes another, none is
\* lost on the way and none is delivered twice), and frames of one source
\* are delivered in the order the source produced them.
C15_RxDeliveredInReadOrder ==
  /\ \A i \in Ops("rx_used") :
       Trace[i].complete => Trace[i].seq = Trace[i].delivered + 1
  /\ \A i \in Ops("rx_used"), j \in Ops("rx_used") :
       (i < j /\ Trace[i].complete /\ Trace[j].complete
          /\ Trace[i].frame[1] = Trace[j].frame[1])
         => Trace[i].frame[2] < Trace[j].frame[2]
  /\ metrics.rx_packets_count <= hist.reads
  /\ hist.reads <= metrics.rx_packets_count + 1

\* A deferred frame is delivered on its retry and the frame read after it
\* is delivered behind it in the same event.
C15_Witness ==
  \E i \in Ops("rx_used"), j \in Ops("rx_used") :
    /\ i < j
    /\ Trace[i].complete /\ Trace[j].complete
    /\ \A r \in Ops("read") : i < r

\* C16: the chains a process_tx call hands to a sink (a TAP write attempt,
\* or MMDS) are, in order, the chains of the available ring from the
\* position where the previous calls stopped, one after the other; so over
\* all calls the TAP sees the frames in ring order, each at most once, and
\* no chain is passed over, a rewound chain included.
C16_TxEmittedInRingOrder ==
  /\ \A b \in Ops("process_tx") :
       LET sinks == { j \in Ops("tap_write") \cup Ops("mmds_accept") : b < j } IN
       /\ Trace[b].position = Trace[b].nused
       /\ \A j \in sinks :
            Trace[j].head =
              Trace[b].position + Cardinality({ k \in sinks : k < j })
  /\ \A i \in DOMAIN tx.queue.used : tx.queue.used[i].head = i - 1
  /\ ~panicked => tx.queue.next_avail = Len(tx.queue.used)
  /\ \A i \in DOMAIN tap.out, j \in DOMAIN tap.out :
       i < j => tap.out[i].head < tap.out[j].head

\* A chain rejected by the limiter in one call is written to the TAP by a
\* later call, behind the chain written before the rejection.
C16_Witness ==
  \E b \in Ops("process_tx"), w \in Ops("tap_write") :
    /\ Trace[b].rejected >= 1
    /\ Trace[w].head = Trace[b].rejected
    /\ Trace[w].ok
    /\ Len(tap.out) >= 2

\* The step is a handle_event call that did no frame work: nothing but the
\* metrics (and the call history, which stays empty) changed
NoFrameWork ==
  /\ UNCHANGED <<rx, tx, tap, mmds_ns, irq, panicked>>
  /\ hist'.trace = <<>>
  /\ hist'.reads = hist.reads

\* The step is a handle_event call that did no frame work, and read at most
\* the notifier of its queue
NoFrameWorkButNotifier ==
  /\ rx' \in { rx, [rx EXCEPT !.queue_evt = 0] }
  /\ tx' \in { tx, [tx EXCEPT !.queue_evt = 0] }
  /\ UNCHANGED <<tap, mmds_ns, irq, panicked>>
  /\ hist'.trace = <<>>
  /\ hist'.reads = hist.reads

\* C17: RX_TAP and RX_QUEUE handled while the RX limiter is blocked, and
\* TX_QUEUE handled while the TX limiter is blocked, read no source, mark no
\* descriptor used, signal no interrupt and change no token count; only the
\* notifier of the queue is read (its counter goes to 0, or event_fails
\* counts the failed read).
C17_BlockedLimiterMeansNoWork ==
  [][ /\ (hist'.ev \in {RX_TAP_EVENT, RX_QUEUE_EVENT} /\ is_blocked(rx.rate_limiter))
           => /\ NoFrameWorkButNotifier
              /\ tx' = tx
              /\ metrics' \in { metrics, [metrics EXCEPT !.event_fails = @ + 1] }
              /\ hist'.ev = RX_TAP_EVENT => (metrics' = metrics /\ rx' = rx)
      /\ (hist'.ev = TX_QUEUE_EVENT /\ is_blocked(tx.rate_limiter))
           => /\ NoFrameWorkButNotifier
              /\ rx' = rx
              /\ metrics' \in { metrics, [metrics EXCEPT !.event_fails = @ + 1] }
    ]_vars

\* RX_TAP was handled with the RX limiter blocked while the TAP held a frame.
C17_Witness ==
  /\ hist.ev = RX_TAP_EVENT
  /\ is_blocked(rx.rate_limiter)
  /\ Trace = <<>>
  /\ tap.rxq # <<>>

\* C18: RX_LIMIT or TX_LIMIT handled when the limiter's event_handler
\* reports an error adds one to event_fails and does nothing else.
C18_LimiterEventErrorOnlyCounts ==
  [][ ( \/ hist'.ev = RX_RATE_LIMITER_EVENT /\ ~event_handler_ok(rx.rate_limiter)
        \/ hist'.ev = TX_RATE_LIMITER_EVENT /\ ~event_handler_ok(tx.rate_limiter) )
      => /\ NoFrameWork
         /\ metrics' = [metrics EXCEPT !.event_fails = @ + 1]
    ]_vars

\* RX_LIMIT failed while a frame was deferred: the frame stays deferred.
C18_Witness ==
  /\ hist.ev = RX_RATE_LIMITER_EVENT
  /\ Trace = <<>>
  /\ rx.deferred_frame
  /\ QueueHasNext(rx.queue)
  /\ metrics.event_fails >= 1

\* C19: handle_event with an event kind that is none of the five aborts
\* the handler and does nothing else.
C19_UnknownEventPanics ==
  [][ hist'.ev >= NET_EVENTS_COUNT
      => /\ panicked'
         /\ UNCHANGED <<rx, tx, tap, mmds_ns, irq, metrics>>
         /\ hist'.trace = <<>>
         /\ hist'.reads = hist.reads
    ]_vars

\* The handler was aborted by an unknown event while work was waiting.
C19_Witness ==
  /\ hist.ev >= NET_EVENTS_COUNT
  /\ panicked
  /\ QueueHasNext(tx.queue)
  /\ tap.rxq # <<>>

\* The chain at the RX queue position can take the staged frame whole
RxChainAdequate ==
  /\ QueueHasNext(rx.queue)
  /\ RxWalk(QueuePeek(rx.queue), 1, 0, rx.bytes_read).write_count >= rx.bytes_read

\* C20: RX_TAP that reads a frame while no RX chain is available leaves the
\* frame deferred, adds no used entry and signals nothing; RX_QUEUE handled
\* afterwards with an adequate chain posted, the limiter not blocked and
\* budget for the frame delivers the staged frame into that chain (used
\* length = bytes_read), signals the interrupt once, and leaves
\* deferred_frame clear when the sources have no further frame.
C20_DeferredThenDeliveredOnRxQueue ==
  [][ /\ ( /\ hist'.ev = RX_TAP_EVENT
            /\ ~QueueHasNext(rx.queue)
            /\ hist'.reads > hist.reads )
          => /\ rx'.deferred_frame
             /\ rx'.queue.used = rx.queue.used
             /\ irq' = irq
             /\ ~rx'.deferred_irqs
      /\ ( /\ hist'.ev = RX_QUEUE_EVENT
            /\ rx.deferred_frame
            /\ ~is_blocked(rx.rate_limiter)
            /\ CanConsume(rx.rate_limiter, 1, "Ops")
            /\ CanConsume(rx.rate_limiter, rx.bytes_read, "Bytes")
            /\ RxChainAdequate )
          => /\ Len(rx'.queue.used) > Len(rx.queue.used)
             /\ rx'.queue.used[Len(rx.queue.used) + 1] =
                  [head |-> rx.queue.next_avail, len |-> rx.bytes_read]
             /\ hist'.trace[1].op = "rx_used"
             /\ hist'.trace[1].frame = rx.frame
             /\ SignalledOnce
             /\ (tap.rxq = <<>> /\ mmds_ns.pending = 0) => ~rx'.deferred_frame
    ]_vars

\* RX_QUEUE delivered a frame that RX_TAP had left deferred.
C20_Witness ==
  /\ hist.ev = RX_QUEUE_EVENT
  /\ Trace # <<>>
  /\ Trace[1].op = "rx_used"
  /\ Trace[1].complete
  /\ ~rx.deferred_frame
  /\ irq.evt >= 1

----------------------------------------------------------------------------
(* The device on its own: the VMM constructs it and the transport calls    *)
(* its VirtioDevice methods; no handler runs.                              *)

Pages == 0..2
AckValues == { {VIRTIO_NET_F_CSUM}, {VIRTIO_NET_F_CSUM, 2}, U32Bits }
Offsets == { ToBits(0), ToBits(3), ToBits(MAC_ADDR_LEN), ToBits(MAC_ADDR_LEN + 1), U64_MAX }
DataLens == { 0, 3, MAC_ADDR_LEN }
Buffer(n) == [i \in 1..n |-> 160 + i]
\* <<queues.len(), queue_evts.len()>>
QueueCounts == { <<NUM_QUEUES, NUM_QUEUES>>, <<NUM_QUEUES - 1, NUM_QUEUES>>,
                 <<NUM_QUEUES, NUM_QUEUES + 1>> }
EpollFaults == { -1, RX_QUEUE_EVENT, TX_RATE_LIMITER_EVENT }

\* The TAP call that fails while the device is constructed
TapFaults == { "none", "new", "set_ip_addr", "set_netmask", "enable",
               "set_offload", "set_vnet_hdr_size" }

DevInit ==
  /\ \E guest_mac \in GuestMacs, limited \in BOOLEAN, allow_mmds_requests \in BOOLEAN,
        tap_fault \in TapFaults :
       \/ dev = new(guest_mac, limited, limited, allow_mmds_requests, tap_fault)
       \/ /\ tap_fault \in {"none", "set_offload", "set_vnet_hdr_size"}
          /\ dev = new_with_tap(guest_mac, limited, limited, allow_mmds_requests,
                                tap_fault)
  /\ rx = [queue |-> NewQueue, rate_limiter |-> NewLimiter(<<0, 0>>),
           deferred_frame |-> FALSE, deferred_irqs |-> FALSE,
           bytes_read |-> 0, frame |-> <<"none", 0>>]
  /\ tx = [queue |-> NewQueue, rate_limiter |-> NewLimiter(<<0, 0>>)]
  /\ mmds_ns = [present |-> FALSE, pending |-> 0, rx_accepted |-> 0, tx_frames |-> 0]
  /\ tap = [rxq |-> <<>>, out |-> <<>>, fault |-> "none", arrived |-> 0]
  /\ inputs = 0
  /\ irq = NewIrq(0)
  /\ metrics = [rx_fails |-> 0, tx_fails |-> 0, event_fails |-> 0, rx_packets_count |-> 0]
  /\ panicked = FALSE
  /\ hist = NewHist

DevCall(d) ==
  /\ dev.err = ""
  /\ ~dev.panicked
  /\ dev.calls < MaxCalls
  /\ dev' = d
  /\ UNCHANGED <<rx, tx, tap, mmds_ns, irq, metrics, panicked, inputs, hist>>

Features == \E page \in Pages : DevCall(features(dev, page))

AckFeatures == \E page \in Pages, value \in AckValues : DevCall(ack_features(dev, page, value))

ReadConfig ==
  \E offset \in Offsets, n \in DataLens : DevCall(read_config(dev, offset, Buffer(n)))

WriteConfig ==
  \E offset \in Offsets, n \in DataLens, overflow_checks \in BOOLEAN :
    DevCall(write_config(dev, offset, Buffer(n), overflow_checks))

Activate ==
  \E counts \in QueueCounts, fault \in EpollFaults, send_ok \in BOOLEAN :
    DevCall(activate(dev, counts[1], counts[2], fault, send_ok))

DevNext ==
  \/ Features
  \/ AckFeatures
  \/ ReadConfig
  \/ WriteConfig
  \/ Activate

DevSpec == DevInit /\ [][DevNext]_vars

----------------------------------------------------------------------------
(* Properties (continued) *)

\* Frames that can be staged in rx.frame_buf
StagedFrames == {"tap", "mmds"} \X (1..(2 * MaxInputs))

C22_EveryPassedChainUsedOnce ==
  \A k \in 0..(tx.queue.next_avail - 1) :
    Cardinality({ i \in DOMAIN tx.queue.used : tx.queue.used[i].head = k }) = 1

\* C23: a TX event (TX_QUEUE or TX_LIMIT) adds one used entry of length 0
\* to the TX queue for every chain it passed to the TAP or to MMDS, and
\* nothing else; the interrupt eventfd and interrupt_status move only
\* through signal_used_queue called by the process_rx that followed an MMDS
\* accept, after that process_rx added an RX used entry.
C23_TxUsedLenZeroAndNoTxInterrupt ==
  [][ hist'.ev \in {TX_QUEUE_EVENT, TX_RATE_LIMITER_EVENT} =>
        LET t == hist'.trace
            at(tag) == { i \in DOMAIN t : t[i].op = tag }
            added == { tx'.queue.used[j] :
                         j \in (Len(tx.queue.used) + 1)..Len(tx'.queue.used) }
        IN /\ SubSeq(tx'.queue.used, 1, Len(tx.queue.used)) = tx.queue.used
           /\ added = { [head |-> t[i].head, len |-> 0] : i \in at("tx_used") }
           /\ at("process_tx_end") # {} =>
                \A i \in at("tap_write") \cup at("mmds_accept") :
                  [head |-> t[i].head, len |-> 0] \in added
           /\ irq'.evt = irq.evt + Cardinality(at("signal"))
           /\ irq'.status \div 2 = irq.status \div 2
           /\ (at("signal") \cup at("signal_err")) = {} => irq' = irq
           /\ \A g \in at("signal") \cup at("signal_err") :
                \E m \in at("mmds_accept"), p \in at("process_rx"), u \in at("rx_used") :
                  m < p /\ p < u /\ u < g
           /\ rx'.queue.used = rx.queue.used => irq' = irq
    ]_vars

\* A TX event that marked a chain used and whose MMDS-triggered process_rx
\* delivered the response and signalled the interrupt.
C23_Witness ==
  /\ hist.ev = TX_QUEUE_EVENT
  /\ Ops("tx_used") # {}
  /\ Ops("mmds_accept") # {}
  /\ Ops("signal") # {}
  /\ Returned("process_tx_end")
  /\ irq.status % 2 = 1

\* !desc.is_write_only() of the head descriptor of the chain that
\* rx_single_frame took at Trace[i]
RxHeadNotWriteOnly(i) == ~rx.queue.avail[Trace[i].head + 1][1].wo

\* The head is marked used with 0 bytes, the call returns false, and
\* signal_used_queue is called later in the same event
RxHeadUsedEmptyAndSignalled(i) ==
  /\ Trace[i].len = 0
  /\ ~Trace[i].complete
  /\ \E j \in DOMAIN rx.queue.used :
       rx.queue.used[j] = [head |-> Trace[i].head, len |-> 0]
  /\ \E g \in SignalCalls : i < g

\* C30 as stated: a chain whose head is not write-only is marked used with 0
\* bytes, counts one rx_fails, is followed by an interrupt, and
\* rx_single_frame returns false.
C30_NotWriteOnlyHeadCountsRxFails ==
  \A i \in Ops("rx_used") :
    (RxHeadNotWriteOnly(i) /\ Trace[i].bytes_read > 0)
      => (RxHeadUsedEmptyAndSignalled(i) /\ Trace[i].fails = 1)

\* C30 amended: a chain whose head is not write-only is marked used with 0
\* bytes, is followed by an interrupt, and rx_single_frame returns false;
\* rx_fails is not incremented for it.
C30_NotWriteOnlyHeadUsedNotCounted ==
  \A i \in Ops("rx_used") :
    (RxHeadNotWriteOnly(i) /\ Trace[i].bytes_read > 0)
      => (RxHeadUsedEmptyAndSignalled(i) /\ Trace[i].fails = 0)

\* rx_single_frame met a chain whose head is not write-only.
C30_Witness ==
  /\ \E i \in Ops("rx_used") : RxHeadNotWriteOnly(i) /\ Trace[i].bytes_read > 0
  /\ metrics.rx_fails = 0
  /\ irq.evt >= 1

\* The step is a call of the device method `op`
DevStep(op) == dev'.calls = dev.calls + 1 /\ dev'.last.op = op

\* The feature bits the device advertises: the seven offload and version
\* bits, and the MAC bit when a MAC address was configured
AdvertisedBits ==
  { VIRTIO_NET_F_GUEST_CSUM, VIRTIO_NET_F_CSUM, VIRTIO_NET_F_GUEST_TSO4,
    VIRTIO_NET_F_GUEST_UFO, VIRTIO_NET_F_HOST_TSO4, VIRTIO_NET_F_HOST_UFO,
    VIRTIO_F_VERSION_1 }
  \cup (IF dev.config_space # <<>> THEN { VIRTIO_NET_F_MAC } ELSE {})

\* C24: features(0) is the low 32 advertised bits, features(1) the high 32
\* and features(p) is 0 for p >= 2; every ack_features(page, value) adds to
\* acked_features exactly the advertised bits among those acked on page 0 or
\* 1, and nothing on another page, so acked_features stays a subset of the
\* advertised bits and holds every advertised bit that was acked.
C24_FeaturePagesAndAckMasking ==
  [][ /\ DevStep("features") =>
           dev'.last.bits =
             IF dev'.last.page = 0 THEN { b \in AdvertisedBits : b < 32 }
             ELSE IF dev'.last.page = 1
                  THEN { b - 32 : b \in { x \in AdvertisedBits : x >= 32 } }
                  ELSE {}
      /\ DevStep("ack_features") =>
           LET acked == IF dev'.last.page = 0 THEN dev'.last.value
                        ELSE IF dev'.last.page = 1
                             THEN { b + 32 : b \in dev'.last.value }
                             ELSE {}
           IN dev'.acked_features =
                dev.acked_features \cup { b \in acked : b \in AdvertisedBits }
      /\ dev.acked_features \subseteq AdvertisedBits
      /\ dev'.acked_features \subseteq AdvertisedBits
    ]_vars

\* An acknowledgement that named an advertised and an unadvertised bit.
C24_Witness ==
  /\ dev.last.op = "ack_features"
  /\ dev.last.page = 0
  /\ 2 \in dev.last.value
  /\ VIRTIO_NET_F_CSUM \in dev.acked_features
  /\ 2 \notin dev.acked_features

\* space with data laid over it from byte `at`
Overlay(space, at, data) ==
  [i \in 1..Len(space) |->
     IF at < i /\ i <= at + Len(data) THEN data[i - at] ELSE space[i]]

\* C25: write_config(offset, data) with offset + len(data) <= space_len
\* does not abort, puts data at bytes [offset, offset + len) of the config
\* space and leaves every other byte, and cfg_fails, as they were.
C25_InBoundsWriteAccepted ==
  [][ ( /\ DevStep("write_config")
        /\ IsSmall(dev'.last.offset)
        /\ FromBits(dev'.last.offset) + Len(dev'.last.data) <= Len(dev.config_space) )
      => ( /\ ~dev'.panicked
           /\ dev'.config_space =
                Overlay(dev.config_space, FromBits(dev'.last.offset), dev'.last.data)
           /\ dev'.cfg_fails = dev.cfg_fails )
    ]_vars

\* C26: write_config(offset, data) with offset + len(data) > space_len is
\* rejected: the config space is unchanged and cfg_fails is one more.
C26_OutOfBoundsWriteRejected ==
  [][ ( /\ DevStep("write_config")
        /\ ~( /\ IsSmall(dev'.last.offset)
              /\ FromBits(dev'.last.offset) + Len(dev'.last.data)
                   <= Len(dev.config_space) ) )
      => ( /\ ~dev'.panicked
           /\ dev'.config_space = dev.config_space
           /\ dev'.cfg_fails = dev.cfg_fails + 1 )
    ]_vars

\* C27: read_config(offset, out) with offset < space_len copies the config
\* bytes [offset, min(offset + len(out), space_len)) to the start of out and
\* leaves the rest of out and cfg_fails as they were; with offset >=
\* space_len (every read of an empty config space) out is untouched and
\* cfg_fails is one more.  The config space never changes.
C27_ReadClipsAndRejects ==
  [][ DevStep("read_config") =>
        LET offset == dev'.last.offset
            before == dev'.last.data
            out == dev'.last.out
            space == dev.config_space
        IN /\ dev'.config_space = space
           /\ Len(out) = Len(before)
           /\ IF IsSmall(offset) /\ FromBits(offset) < Len(space)
              THEN LET at == FromBits(offset)
                       n == Min(at + Len(before), Len(space)) - at
                   IN /\ \A i \in 1..Len(before) :
                           out[i] = IF i <= n THEN space[at + i] ELSE before[i]
                      /\ dev'.cfg_fails = dev.cfg_fails
              ELSE /\ out = before
                   /\ dev'.cfg_fails = dev.cfg_fails + 1
    ]_vars

\* A read that reached past the end of the config space: the head of out
\* holds config bytes, its tail is untouched.
C27_Witness ==
  /\ dev.last.op = "read_config"
  /\ dev.last.offset = ToBits(3)
  /\ Len(dev.last.data) = MAC_ADDR_LEN
  /\ Len(dev.config_space) = MAC_ADDR_LEN
  /\ dev.last.out[1] = dev.config_space[4]
  /\ dev.last.out[MAC_ADDR_LEN] = dev.last.data[MAC_ADDR_LEN]
  /\ dev.cfg_fails = 0

\* C28: activate called with a number of queues or of queue eventfds other
\* than 2 returns BadActivate, adds one to activate_fails and changes
\* nothing else of the device (TAP and limiters stay with it); activate
\* called with two of each on a device that still owns its TAP succeeds
\* when the epoll thread is there to receive the handler and the host
\* accepts the epoll registrations.
C28_BadCountsLeaveDeviceUsable ==
  [][ DevStep("activate") =>
        /\ (dev'.last.queues # NUM_QUEUES \/ dev'.last.queue_evts # NUM_QUEUES)
             => /\ dev'.last.ret = "BadActivate"
                /\ dev' = [dev EXCEPT !.activate_fails = @ + 1,
                                      !.calls = @ + 1,
                                      !.last = dev'.last]
        /\ ( /\ dev'.last.queues = NUM_QUEUES
             /\ dev'.last.queue_evts = NUM_QUEUES
             /\ dev.tap
             /\ dev'.last.send_ok
             /\ dev'.last.fault = -1 )
             => /\ dev'.last.ret = "Ok"
                /\ Len(dev'.handlers) = Len(dev.handlers) + 1
                /\ dev'.activate_fails = dev.activate_fails
    ]_vars

\* An activation that succeeded after one that failed.
C28_Witness ==
  /\ dev.last.op = "activate"
  /\ dev.last.ret = "Ok"
  /\ dev.activate_fails >= 1
  /\ Len(dev.handlers) = 1

\* C29: the device owns its TAP exactly until an activate call has created
\* the handler; activate called after that, whatever the counts, returns
\* BadActivate, adds one to activate_fails and creates no handler, so at
\* most one handler is ever created.
C29_ActivatedAtMostOnce ==
  [][ /\ DevStep("activate") /\ ~dev.tap
        => /\ dev'.last.ret = "BadActivate"
           /\ dev'.activate_fails = dev.activate_fails + 1
           /\ dev'.handlers = dev.handlers
           /\ ~dev'.tap
      /\ ~dev'.panicked => (dev'.tap <=> (dev'.handlers = <<>>))
      /\ Len(dev'.handlers) <= 1
    ]_vars

\* A second activate with two queues and two eventfds, after the handler
\* was created, failed.
C29_Witness ==
  /\ dev.last.op = "activate"
  /\ dev.last.queues = NUM_QUEUES
  /\ dev.last.queue_evts = NUM_QUEUES
  /\ dev.last.ret = "BadActivate"
  /\ Len(dev.handlers) = 1
  /\ dev.activate_fails >= 1


----------------------------------------------------------------------------
(* RX used lengths *)

\* Sum of the lengths of the leading write-only descriptors of a chain
RECURSIVE WriteOnlyPrefixLen(_, _)
WriteOnlyPrefixLen(chain, i) ==
  IF i > Len(chain) \/ ~chain[i].wo THEN 0
  ELSE chain[i].len + WriteOnlyPrefixLen(chain, i + 1)

\* Number of frame bytes the walk copied into the chain
RECURSIVE SegsLen(_)
SegsLen(segs) ==
  IF segs = <<>> THEN 0
  ELSE (Head(segs).to - Head(segs).from) + SegsLen(Tail(segs))

\* The copied pieces are frame_buf[0..n] in order, one piece per descriptor
\* in chain order, each within its descriptor
SegsInOrder(segs, chain, n) ==
  /\ segs # <<>>
  /\ segs[1].from = 0
  /\ segs[Len(segs)].to = n
  /\ \A k \in 1..Len(segs) :
       /\ segs[k].desc = k
       /\ chain[k].wo
       /\ segs[k].to - segs[k].from <= chain[k].len
       /\ k < Len(segs) => segs[k + 1].from = segs[k].to

\* C31: every RX used-ring entry added by rx_single_frame carries the number
\* of bytes actually written to the chain; that number exceeds neither
\* bytes_read nor the total length of the chain's write-only prefix;
\* rx_single_frame returns true exactly when it equals bytes_read, and then
\* the bytes written are frame_buf[0..bytes_read] in order.
C31_RxUsedLenIsBytesWritten ==
  \A i \in Ops("rx_used") :
    LET u == Trace[i]
        chain == rx.queue.avail[u.head + 1]
    IN /\ u.len = SegsLen(u.segs)
       /\ \E e \in 1..Len(rx.queue.used) :
            rx.queue.used[e] = [head |-> u.head, len |-> u.len]
       /\ u.len <= u.bytes_read
       /\ u.len <= WriteOnlyPrefixLen(chain, 1)
       /\ u.complete <=> (u.len = u.bytes_read)
       /\ u.complete => SegsInOrder(u.segs, chain, u.bytes_read)

C31_Witness ==
  \E i \in Ops("rx_used") :
    /\ Trace[i].len > 0
    /\ Trace[i].len < Trace[i].bytes_read
    /\ ~Trace[i].complete


----------------------------------------------------------------------------
(* process_tx and process_rx nesting *)

\* The calls made by the process_tx call logged at position p of the trace
TxCallEnd(p) ==
  LET ends == { e \in Ops("process_tx_end") : e > p } IN
  IF ends = {} THEN Len(Trace) + 1
  ELSE CHOOSE e \in ends : \A f \in ends : e <= f

InTxCall(p, tag) == { i \in Ops(tag) : p < i /\ i < TxCallEnd(p) }

\* C32: a process_tx call invokes process_rx at most once, after every head
\* it recorded has been marked used, and only if MMDS accepted a frame of
\* the call while deferred_frame was clear; no RX operation invokes
\* process_tx; the loop of process_tx takes each available chain at most
\* once, so the call ends.
C32_TxKicksRxAtMostOnceAtTheEnd ==
  /\ \A p \in Ops("process_tx") :
       /\ Cardinality(InTxCall(p, "process_rx")) <= 1
       /\ \A r \in InTxCall(p, "process_rx") :
            /\ \A u \in InTxCall(p, "tx_used") : u < r
            /\ \A w \in InTxCall(p, "tap_write") \cup InTxCall(p, "mmds_accept") :
                 \E u \in InTxCall(p, "tx_used") :
                   Trace[u].head = Trace[w].head /\ u < r
            /\ \E m \in InTxCall(p, "mmds_accept") : m < r /\ ~Trace[m].deferred
       /\ Cardinality(InTxCall(p, "tx_iter")) <= Len(tx.queue.avail) - Trace[p].position
       /\ \A i, j \in InTxCall(p, "tx_iter") : Trace[i].head = Trace[j].head => i = j
       /\ panicked \/ TxCallEnd(p) <= Len(Trace)
       /\ \A i \in DOMAIN Trace :
            Trace[i].op \in {"process_rx", "read", "rx_used"} => p < i
  /\ hist.ev \in {RX_TAP_EVENT, RX_QUEUE_EVENT, RX_RATE_LIMITER_EVENT} =>
       Ops("process_tx") = {}

C32_Witness ==
  \E p \in Ops("process_tx") :
    /\ InTxCall(p, "process_rx") # {}
    /\ Cardinality(InTxCall(p, "tx_used")) >= 2
    /\ InTxCall(p, "rx_used") # {}


----------------------------------------------------------------------------
(* TX chains cut by a write-only descriptor *)

HasWriteOnly(descs) == \E k \in 1..Len(descs) : descs[k].wo

FirstWriteOnly(descs) ==
  CHOOSE k \in 1..Len(descs) :
    descs[k].wo /\ \A j \in 1..(k - 1) : ~descs[j].wo

\* Total length of the descriptors before position n
RECURSIVE LenBefore(_, _)
LenBefore(descs, n) ==
  IF n <= 1 THEN 0 ELSE descs[n - 1].len + LenBefore(descs, n - 1)

TxSinks == Ops("tap_write") \cup Ops("mmds_accept")

TxUsedEntries(head) ==
  { e \in 1..Len(tx.queue.used) : tx.queue.used[e].head = head }

\* C33: for a TX chain containing a write-only descriptor, the byte tokens
\* consumed and the frame handed to MMDS or the TAP cover exactly the
\* descriptors before the first write-only one, and the head of the chain
\* is marked used once.
C33_WriteOnlyCutsTxChain ==
  \A i \in Ops("tx_consume") :
    LET head == Trace[i].head
        descs == tx.queue.avail[head + 1].descs
    IN HasWriteOnly(descs) =>
         LET prefix == LenBefore(descs, FirstWriteOnly(descs)) IN
         /\ Trace[i].bytes = prefix
         /\ \E w \in TxSinks :
              w > i /\ Trace[w].head = head /\ Trace[w].len = prefix
         /\ Cardinality(TxUsedEntries(head)) = 1


----------------------------------------------------------------------------
(* Failed TAP writes *)

FailedTapWrites == { w \in Ops("tap_write") : ~Trace[w].ok }

\* C34: when the TAP write of a TX frame fails, tx_fails is incremented, the
\* frame is handed to no sink again, the tokens consumed for it stay
\* consumed, the head of its chain is marked used in the same process_tx
\* call, and the call goes on with the next available chain.
C34_FailedTapWriteDropsFrame ==
  \A p \in Ops("process_tx") : \A w \in FailedTapWrites \cap InTxCall(p, "tap_write") :
    LET head == Trace[w].head IN
    /\ Trace[w].tx_fails[2] = Trace[w].tx_fails[1] + 1
    /\ metrics.tx_fails >= Trace[w].tx_fails[2]
    /\ \A v \in TxSinks : Trace[v].head = head => v = w
    /\ \A v \in TxSinks : Trace[v].head >= Trace[p].position
    /\ tx.queue.next_avail > head
    /\ \A c \in Ops("tx_consume") :
         Trace[c].head = head =>
           /\ tx.rate_limiter.opsCap > 0 => Trace[w].post[1] = Trace[c].pre[1] - 1
           /\ tx.rate_limiter.bytesCap > 0 =>
                Trace[w].post[2] = Trace[c].pre[2] - Trace[c].bytes
    /\ \E u \in InTxCall(p, "tx_used") : u > w /\ Trace[u].head = head
    /\ Cardinality(TxUsedEntries(head)) = 1
    /\ head + 1 < Len(tx.queue.avail) =>
         \E n \in InTxCall(p, "tx_iter") : n > w /\ Trace[n].head = head + 1


----------------------------------------------------------------------------
(* Guest-memory errors *)

\* C35: a guest-memory error never leaks the chain.  A write error in
\* rx_single_frame stops the walk, counts one rx_fails and marks the head
\* used with the bytes written so far; a read error in process_tx stops the
\* assembly, counts one tx_fails and the head is marked used in the same
\* call.
C35_MemoryErrorNeverLeaksChain ==
  /\ \A i \in Ops("rx_used") :
       Trace[i].why = "err" =>
         LET u == Trace[i]
             chain == rx.queue.avail[u.head + 1]
         IN /\ u.fails = 1
            /\ u.len = SegsLen(u.segs)
            /\ u.len < u.bytes_read
            /\ Len(u.segs) < Len(chain)
            /\ chain[Len(u.segs) + 1].mem = "err"
            /\ \E e \in 1..Len(rx.queue.used) :
                 rx.queue.used[e] = [head |-> u.head, len |-> u.len]
  /\ \A p \in Ops("process_tx") : \A i \in InTxCall(p, "tx_read_err") :
       LET head == Trace[i].head
           descs == tx.queue.avail[head + 1].descs
       IN /\ Trace[i].tx_fails[2] = Trace[i].tx_fails[1] + 1
          /\ metrics.tx_fails >= Trace[i].tx_fails[2]
          /\ Trace[i].read_count < SumLens(TxIovec(descs, 1))
          /\ \E u \in InTxCall(p, "tx_used") : u > i /\ Trace[u].head = head
          /\ Cardinality(TxUsedEntries(head)) = 1


----------------------------------------------------------------------------
(* Deferred interrupts *)

\* C36: at every return from handle_event rx.deferred_irqs is false, and
\* every RX used entry added during the event was followed by an interrupt
\* signal before the event returned.
C36_NoDeferredIrqBetweenEvents ==
  /\ ~rx.deferred_irqs
  /\ hist.used_since_signal = 0
  /\ \A i \in Ops("rx_used") : \E s \in SignalCalls : s > i

\* A retry of the deferred frame on RX_TAP that used a chain, failed again
\* and returned without entering process_rx
C36_Witness ==
  /\ hist.ev = RX_TAP_EVENT
  /\ Ops("rx_used") # {}
  /\ Ops("process_rx") = {}
  /\ rx.deferred_frame
  /\ ~rx.deferred_irqs


----------------------------------------------------------------------------
(* Blocked limiters keep their work *)

\* C37: at every return from handle_event, a blocked RX limiter means the
\* throttled frame is still staged (deferred_frame is set), and a blocked TX
\* limiter means the chain it rejected is the next available TX chain.
C37_BlockedLimiterKeepsItsWork ==
  /\ is_blocked(rx.rate_limiter) =>
       /\ rx.deferred_frame
       /\ rx.bytes_read > 0
  /\ is_blocked(tx.rate_limiter) =>
       /\ QueueHasNext(tx.queue)
       /\ hist.tx_rejected = tx.queue.next_avail

C37_Witness ==
  /\ is_blocked(rx.rate_limiter)
  /\ is_blocked(tx.rate_limiter)
  /\ rx.deferred_frame
  /\ hist.tx_rejected = tx.queue.next_avail


----------------------------------------------------------------------------
(* Aborts on guest input *)

\* C38: process_tx never aborts on guest-supplied input: every call returns,
\* and every chain whose tokens were consumed, also one whose readable
\* prefix gives fewer than VNET_HDR_LEN bytes while an MMDS stack is
\* configured, is handed to write_to_mmds_or_tap without a panic and its
\* head is marked used in the call.
C38_ProcessTxNeverAborts ==
  \A p \in Ops("process_tx") :
    /\ ~panicked
    /\ TxCallEnd(p) <= Len(Trace)
    /\ \A c \in InTxCall(p, "tx_consume") :
         /\ \E w \in TxSinks : w > c /\ Trace[w].head = Trace[c].head
         /\ \E u \in InTxCall(p, "tx_used") : Trace[u].head = Trace[c].head


----------------------------------------------------------------------------
(* Termination of process_rx *)

RxCallEnd(r) ==
  LET ends == { e \in Ops("process_rx_end") : e > r } IN
  IF ends = {} THEN Len(Trace) + 1
  ELSE CHOOSE e \in ends : \A f \in ends : e <= f

InRxCall(r, tag) == { i \in Ops(tag) : r < i /\ i < RxCallEnd(r) }

\* C39: process_rx terminates.  Every iteration of its loop (one call of
\* read_from_mmds_or_tap) but the last consumed one available RX chain for
\* a complete delivery, so the loop runs at most the number of chains
\* available at entry plus one times, and the call returns.
C39_ProcessRxLoopBounded ==
  \A r \in Ops("process_rx") :
    LET reads == InRxCall(r, "read")
        available == Len(rx.queue.avail) - Trace[r].position
    IN /\ RxCallEnd(r) <= Len(Trace)
       /\ Cardinality(reads) >= 1
       /\ Cardinality(reads) <= available + 1
       /\ \A i, j \in reads :
            i < j => \E u \in InRxCall(r, "rx_used") :
                       i < u /\ u < j /\ Trace[u].complete
       /\ Cardinality(InRxCall(r, "rx_used")) <= available

\* The loop left although the source had another frame: every available
\* chain was consumed and the frame read last stays staged
C39_Witness ==
  \E r \in Ops("process_rx") :
    /\ Cardinality(InRxCall(r, "read")) = Len(rx.queue.avail) - Trace[r].position + 1
    /\ Cardinality(InRxCall(r, "read")) >= 2
    /\ rx.deferred_frame


----------------------------------------------------------------------------
(* Independence of the two directions *)

\* C40: RX_TAP, RX_QUEUE and RX_LIMIT never change the TX queue position,
\* the TX used ring or the TX limiter's tokens.  TX_QUEUE and TX_LIMIT change
\* the RX limiter's tokens, the RX used ring, deferred_frame or bytes_read
\* only through one process_rx call, which runs only after MMDS accepted a
\* TX frame of the same call.
C40_DirectionsIndependent ==
  [][ LET t == hist'.trace
          at(tag) == { i \in DOMAIN t : t[i].op = tag }
      IN /\ hist'.ev \in {RX_TAP_EVENT, RX_QUEUE_EVENT, RX_RATE_LIMITER_EVENT} =>
              /\ tx'.queue.next_avail = tx.queue.next_avail
              /\ tx'.queue.used = tx.queue.used
              /\ Tokens(tx'.rate_limiter) = Tokens(tx.rate_limiter)
              /\ at("process_tx") = {}
         /\ hist'.ev \in {TX_QUEUE_EVENT, TX_RATE_LIMITER_EVENT} =>
              /\ Cardinality(at("process_rx")) <= 1
              /\ \A p \in at("process_rx") :
                   /\ \E m \in at("mmds_accept") : m < p
                   /\ \A i \in at("read") \cup at("rx_used") \cup at("rx_reject") :
                        p < i
              /\ at("process_rx") = {} =>
                   /\ Tokens(rx'.rate_limiter) = Tokens(rx.rate_limiter)
                   /\ rx'.queue.used = rx.queue.used
                   /\ rx'.deferred_frame = rx.deferred_frame
                   /\ rx'.bytes_read = rx.bytes_read
                   /\ at("read") \cup at("rx_used") \cup at("rx_reject") = {}
    ]_vars

\* A TX event whose MMDS-triggered process_rx delivered a frame, next to a
\* TX chain that went to the TAP in the same call
C40_Witness ==
  /\ hist.ev = TX_QUEUE_EVENT
  /\ Ops("process_rx") # {}
  /\ Ops("rx_used") # {}
  /\ Ops("tap_write") # {}
  /\ Returned("process_tx_end")

====
